---- MODULE Spec2Model ----
(***************************************************************************)
(* Verification model of the forecast-value plane of foreshadow-api:       *)
(*   - ModelService._get_or_compute / get_or_build_interpolator            *)
(*     (per-key single flight over the shared cache),                      *)
(*   - InterpolatorCachingService (local cache + debounced shared write),  *)
(*   - ModelService.update_and_get_min_max (min/max merge),                *)
(*   - the point-value and timeseries fan-out.                             *)
(* Each part has its own specification over the shared variables.          *)
(***************************************************************************)
EXTENDS Integers, Sequences, FiniteSets, TLC

\* ---------------------------------------------------------------- bounds
\* Calls of get_or_build_interpolator, each made by a thread of its own (a
\* request handler).
NCalls == 2
\* Faults of the shared cache backend (an outage, an expired entry).
MaxFaults == 1

Threads == 1..NCalls
\* Lock objects created by threading.Lock() at line 1048.
Locks == 1..NCalls
\* The cleaner thread of LocalStorage (local_cache.py line 12), next to the
\* threads that call the store.
Sweeper == 0
LsThreads == Threads \cup {Sweeper}
\* Two InterpKeys of one parameter (two time buckets): they share one
\* "max:min:..." key, whose text carries no time component (line 1010).
InterpKeys == {"k1", "k2"}
\* Python's None, and an absent cache entry.
None == <<>>

VARIABLES
    local_cache,   \* LocalStorage.data of InterpolatorCachingService.local_cache
    cache,         \* the shared ICacheBackend store, per InterpKey
    cache_up,      \* whether the shared backend answers (FALSE: get/set raise)
    minmax,        \* the shared cache entry under the "max:min:..." key
    file_ok,       \* per key: a GRIB file resolves and yields a buildable message
    key_locks,     \* ModelService.key_locks: key -> lock object (0: no entry)
    lock_owner,    \* per lock object: the thread holding it (0: free)
    pc,            \* per thread: position in the operation it runs
    t_key,         \* per thread: the key of its call
    t_val,         \* per thread: local value (inter / cached / result), then the value returned
    t_lock,        \* per thread: the lock object it refers to (0: none)
    t_mm,          \* per thread: the min/max pair read in update_and_get_min_max
    t_out,         \* per thread: how its call ended
    t_raced,       \* per thread: compute ran for its key while its call was under way
    n_faults,      \* environment faults so far
    ok_builds,     \* per key: executions of compute that returned an interpolator
    lost,          \* per key: shared-cache entries not kept (expired, or set swallowed)
    t_op,          \* per thread: the operation it runs ("build", "get", "set")
    debounce_map,  \* InterpolatorCachingService.debounce_map: key -> (value, timer)
    timer,         \* per set_interpolator call: the state of the Timer it created
    cb_val,        \* per timer: the value its callback popped (line 71)
    last_reg,      \* per key: the (value, timer) registered last under debounce_lock
    late,          \* per key: a Set registered after the previous timer had fired
    deb_log,       \* per key: the values the callbacks wrote to the shared cache
    set_seq,       \* per key: set_interpolator calls that have written the local cache
    set_floor,     \* per key: the newest Set among those that have returned
    t_floor,       \* per get: set_floor of its key when the call began
    mm_inputs,     \* the (min, max) inputs of the updates that completed
    mm_ret,        \* the pair the last update_and_get_min_max returned
    n_updates,     \* sequential updates applied
    pt_pc,         \* the point request: "idle", "submitting", "collecting", "returned"
    pt_mode,       \* "point" (iterate_multiple_keys_against_geo_point) or "series"
    pt_params,     \* search_parameters / param_keys of the request
    pt_offsets,    \* the hour offsets of the request, in order
    pt_files,      \* per offset whose dictionary was built: a GRIB file was there
    values_dict,   \* per offset: the dictionary of _get_or_build_value_cache_dictionary
    futs,          \* the futures submitted to the pool, in order: (offset index, parameter, done)
    results,       \* the results list of the request
    outstanding,   \* get_point_forecast_timeseries: futures left per offset
    completed_offsets, \* get_point_forecast_timeseries: offsets fully resolved
    final_results, \* what the request returned
    progress,      \* the (completed, total) arguments of the progress callback's calls
    snap_pc,       \* process_hour_offset: "idle", "new" (about to be called), "done"
    snap_in,       \* the hour offset handed to process_hour_offset
    snap_out,      \* what process_hour_offset returned
    rs_pc,         \* get_grib_file: "idle", "new" (about to be called), "done"
    rs_model,      \* the model name is a key of MODEL_MAP
    rs_now,        \* datetime.now(timezone.utc), in half hours since midnight
    rs_offset,     \* the hour_offset of the call
    disk,          \* the GRIB files on disk, as (date, run hour, forecast hour)
    resolved,      \* what get_grib_file returned
    sel_pc,        \* _select_grib_message: "idle", "new" (about to be called), "done"
    grbs,          \* the messages of the open GRIB file, in file order
    sel_level,     \* the level argument (empty: None)
    sel_type,      \* the type_of_level argument (empty: None)
    sel_step,      \* the step_type argument (empty: None)
    select_raises, \* select raises ValueError when nothing matches (pygrib) rather than returning []
    selected,      \* the message _select_grib_message returned
    sel_fallback,  \* fetch_with_fallbacks was called
    col_pc,        \* colorize_grid: "idle", "new" (about to be called), "done"
    data_2d,       \* the data_2d argument, cell by cell
    missing_mask,  \* the missing_mask argument (None: the default)
    col_gmin,      \* the gmin argument
    col_gmax,      \* the gmax argument
    col_slug,      \* the param_name argument, word by word
    rgba,          \* the raster colorize_grid returned
    fi_pc,         \* fast_interpolate: "idle", "new" (about to be called), "loop", "done"
    query_pts,     \* the query_pts argument
    simplex_indices, \* the simplex_indices argument
    fi_chunk_size, \* chunk_size
    fi_i,          \* the loop variable i of fast_interpolate: rounds done
    fi_out,        \* the out array of fast_interpolate
    fi_writes,     \* per index of out: how often it was written
    tl_pc,         \* the tile server: "idle", "ready" (serving requests)
    grib_state,    \* per key: what the build finds ("ok", "missing", "nomessage", "corrupt", "sparse")
    tl_tiles,      \* the tile entries of the shared backend, per tile cache key
    tl_first,      \* per tile cache key: the first PNG rendered for it
    tl_req,        \* the last tile request: (model known, key, (z, x, y))
    tl_resp,       \* the response to it: (status, body)
    tl_ops,        \* what serving it did: tile cache read, render, interpolator cache read, file resolution
    tl_cause,      \* why its build returned None, if it did
    tl_n,          \* tile requests served
    tk_pc,         \* position of the keyed tile route
    tk_file,       \* the messages of the file the tiles are drawn from
    tk_raises,     \* whether select raises on an empty match
    tk_up,         \* whether the tile backend is reachable
    tk_store,      \* tile key -> << tile, request that rendered it >>
    tk_req,        \* << level, typeOfLevel, stepType >> of the last request
    tk_resp,       \* << status, tile, request the tile was rendered for >>
    tk_n,          \* requests served
    gd_pc,         \* per caller: position in the dictionary builder
    gd_params,     \* per caller: the keys asked for
    gd_values,     \* per caller: its copy of the dictionary
    gd_store,      \* the dictionary the backend holds, << >> when none
    gd_up,         \* whether the backend is reachable
    gd_grib,       \* whether the GRIB file of the offset resolves
    gd_lost,       \* entries a write-back removed
    gd_dup,        \* entries populated by two callers at once
    gd_n,          \* calls made
    dl_pc,         \* position of the run of the downloader script
    dl_s3,         \* the files of the 00 run published on S3
    dl_local,      \* the files of the 00 folder of the day
    dl_map,        \* downloaded_map: << forecast hours covered >>, << >> when unset
    dl_pulled,     \* pulled_new_data of the run
    dl_no_cleanup, \* the --no-cleanup flag of the run
    dl_old,        \* the older folders, kept or pruned
    dl_runs,       \* runs of the script started
    ls_data,       \* LocalStorage.data: key -> whether a value is stored
    ls_time,       \* LocalStorage.data_time: none, fresh, or old (older than CACHE_TTL)
    ls_lock,       \* holder of LocalStorage._lock, {} when free
    ls_pc,         \* per thread: position in its store operation
    ls_op,         \* per thread: << operation, key, expire >>
    ls_ret,        \* per thread: what its last operation returned
    tt_l2,         \* shared backend: key -> whether the interpolator is stored
    tt_timer,      \* key -> whether a debounce timer is pending
    tt_pub,        \* key -> age of the last set_interpolator: none, fresh, old
    tt_resp,       \* << key, answer, age of the publication >> of the last lookup
    wr_pc,         \* position of the point interpolation
    wr_lon,        \* the target longitude, in degrees
    wr_out,        \* the longitude used for the search
    st_n,          \* offsets of the timeseries of the stream request
    st_k,          \* offsets the worker thread has reported
    st_thread,     \* the worker thread: none, running, returned
    st_ready,      \* the handles scheduled on the event loop, in order
    st_queue,      \* progress_queue
    st_done,       \* timeseries_future.done()
    st_gen,        \* the response generator: none, getting, closed
    st_out,        \* the lines of the response
    pm_file,       \* what get_grib_file finds for offset 0
    pm_cache,      \* the cache entry param_map:model:0, None or << value >>
    pm_n,          \* requests made
    pm_asked,      \* the file at the last request
    pm_out,        \* what the last request returned, << value >>
    se_pc,         \* idle, collecting, returned
    se_entries,    \* the requested entries, << slug, level >> each
    se_offsets,    \* the offsets of the request
    se_futs,       \* the futures, << offset index, entry index, taken >>
    se_results,    \* results, in the order of completion
    se_final       \* the list returned

vars == << local_cache, cache, cache_up, minmax, file_ok, key_locks, lock_owner,
           pc, t_key, t_val, t_lock, t_mm, t_out, t_raced,
           n_faults, ok_builds, lost, t_op, debounce_map, timer, cb_val,
           last_reg, late, deb_log, set_seq, set_floor, t_floor,
           mm_inputs, mm_ret, n_updates, pt_pc, pt_mode, pt_params, pt_offsets,
           pt_files, values_dict, futs, results, outstanding, completed_offsets,
           final_results, progress,
           snap_pc, snap_in, snap_out,
           rs_pc, rs_model, rs_now, rs_offset, disk, resolved,
           sel_pc, grbs, sel_level, sel_type, sel_step, select_raises, selected, sel_fallback,
           col_pc, data_2d, missing_mask, col_gmin, col_gmax, col_slug, rgba,
           fi_pc, query_pts, simplex_indices, fi_chunk_size, fi_i, fi_out, fi_writes,
           tl_pc, grib_state, tl_tiles, tl_first, tl_req, tl_resp, tl_ops, tl_cause, tl_n,
           tk_pc, tk_file, tk_raises, tk_up, tk_store, tk_req, tk_resp, tk_n,
           gd_pc, gd_params, gd_values, gd_store, gd_up, gd_grib, gd_lost, gd_dup, gd_n,
           dl_pc, dl_s3, dl_local, dl_map, dl_pulled, dl_no_cleanup, dl_old, dl_runs,
           ls_data, ls_time, ls_lock, ls_pc, ls_op, ls_ret, tt_l2, tt_timer, tt_pub, tt_resp,
           wr_pc, wr_lon, wr_out,
           st_n, st_k, st_thread, st_ready, st_queue, st_done, st_gen, st_out,
           pm_file, pm_cache, pm_n, pm_asked, pm_out,
           se_pc, se_entries, se_offsets, se_futs, se_results, se_final >>

\* The state of a point-value or timeseries request.
pt_vars == << pt_pc, pt_mode, pt_params, pt_offsets, pt_files, values_dict, futs,
             results, outstanding, completed_offsets, final_results, progress >>

\* The state of the debounced write path and of its observers.
deb_vars == << debounce_map, timer, cb_val, last_reg, late, deb_log,
               set_seq, set_floor, t_floor >>

\* The record of the sequential min/max updates.
merge_vars == << mm_ret, n_updates >>

\* The state of the caches, the single flight and the point requests.
core_vars == << local_cache, cache, cache_up, minmax, file_ok, key_locks, lock_owner,
               pc, t_key, t_val, t_lock, t_mm, t_out, t_raced, n_faults, ok_builds,
               lost, t_op, deb_vars, mm_inputs, merge_vars, pt_vars >>

snap_vars == << snap_pc, snap_in, snap_out >>
resolve_vars == << rs_pc, rs_model, rs_now, rs_offset, disk, resolved >>
select_vars == << sel_pc, grbs, sel_level, sel_type, sel_step, select_raises, selected, sel_fallback >>
color_vars == << col_pc, data_2d, missing_mask, col_gmin, col_gmax, col_slug, rgba >>
fast_vars == << fi_pc, query_pts, simplex_indices, fi_chunk_size, fi_i, fi_out, fi_writes >>
tile_vars == << tl_pc, grib_state, tl_tiles, tl_first, tl_req, tl_resp, tl_ops, tl_cause, tl_n >>
tkey_vars == << tk_pc, tk_file, tk_raises, tk_up, tk_store, tk_req, tk_resp, tk_n >>
dict_vars == << gd_pc, gd_params, gd_values, gd_store, gd_up, gd_grib, gd_lost, gd_dup, gd_n >>
dl_vars == << dl_pc, dl_s3, dl_local, dl_map, dl_pulled, dl_no_cleanup, dl_old, dl_runs >>
ls_vars == << ls_data, ls_time, ls_lock, ls_pc, ls_op, ls_ret, tt_l2, tt_timer, tt_pub, tt_resp >>
wrap_vars == << wr_pc, wr_lon, wr_out >>
strm_vars == << st_n, st_k, st_thread, st_ready, st_queue, st_done, st_gen, st_out >>
pmap_vars == << pm_file, pm_cache, pm_n, pm_asked, pm_out >>
ser_vars == << se_pc, se_entries, se_offsets, se_futs, se_results, se_final >>

\* The state of the request-level and pure-function parts.
aux_vars == << snap_vars, resolve_vars, select_vars, color_vars, fast_vars, tile_vars, tkey_vars, dict_vars, dl_vars, ls_vars, wrap_vars, strm_vars, pmap_vars, ser_vars >>

\* Everything outside one part.
others_snap == << core_vars, resolve_vars, select_vars, color_vars, fast_vars, tile_vars, tkey_vars, dict_vars, dl_vars, ls_vars, wrap_vars, strm_vars, pmap_vars, ser_vars >>
others_resolve == << core_vars, snap_vars, select_vars, color_vars, fast_vars, tile_vars, tkey_vars, dict_vars, dl_vars, ls_vars, wrap_vars, strm_vars, pmap_vars, ser_vars >>
others_select == << core_vars, snap_vars, resolve_vars, color_vars, fast_vars, tile_vars, tkey_vars, dict_vars, dl_vars, ls_vars, wrap_vars, strm_vars, pmap_vars, ser_vars >>
others_color == << core_vars, snap_vars, resolve_vars, select_vars, fast_vars, tile_vars, tkey_vars, dict_vars, dl_vars, ls_vars, wrap_vars, strm_vars, pmap_vars, ser_vars >>
others_fast == << core_vars, snap_vars, resolve_vars, select_vars, color_vars, tile_vars, tkey_vars, dict_vars, dl_vars, ls_vars, wrap_vars, strm_vars, pmap_vars, ser_vars >>
others_tile == << core_vars, snap_vars, resolve_vars, select_vars, color_vars, fast_vars, tkey_vars, dict_vars, dl_vars, ls_vars, wrap_vars, strm_vars, pmap_vars, ser_vars >>
others_tkey == << core_vars, snap_vars, resolve_vars, select_vars, color_vars, fast_vars, tile_vars, dict_vars, dl_vars, ls_vars, wrap_vars, strm_vars, pmap_vars, ser_vars >>
others_dict == << core_vars, snap_vars, resolve_vars, select_vars, color_vars, fast_vars, tile_vars, tkey_vars, dl_vars, ls_vars, wrap_vars, strm_vars, pmap_vars, ser_vars >>
others_dl == << core_vars, snap_vars, resolve_vars, select_vars, color_vars, fast_vars, tile_vars, tkey_vars, dict_vars, ls_vars, wrap_vars, strm_vars, pmap_vars, ser_vars >>
others_ls == << core_vars, snap_vars, resolve_vars, select_vars, color_vars, fast_vars, tile_vars, tkey_vars, dict_vars, dl_vars, wrap_vars, strm_vars, pmap_vars, ser_vars >>
others_wrap == << core_vars, snap_vars, resolve_vars, select_vars, color_vars, fast_vars, tile_vars, tkey_vars, dict_vars, dl_vars, ls_vars, strm_vars, pmap_vars, ser_vars >>
others_strm == << core_vars, snap_vars, resolve_vars, select_vars, color_vars, fast_vars, tile_vars, tkey_vars, dict_vars, dl_vars, ls_vars, wrap_vars, pmap_vars, ser_vars >>
others_pmap == << core_vars, snap_vars, resolve_vars, select_vars, color_vars, fast_vars, tile_vars, tkey_vars, dict_vars, dl_vars, ls_vars, wrap_vars, strm_vars, ser_vars >>
others_ser == << core_vars, snap_vars, resolve_vars, select_vars, color_vars, fast_vars, tile_vars, tkey_vars, dict_vars, dl_vars, ls_vars, wrap_vars, strm_vars, pmap_vars >>

\* The other request-level and pure-function parts.
peers_snap == << resolve_vars, select_vars, color_vars, fast_vars, tile_vars, tkey_vars, dict_vars, dl_vars, ls_vars, wrap_vars, strm_vars, pmap_vars, ser_vars >>
peers_resolve == << snap_vars, select_vars, color_vars, fast_vars, tile_vars, tkey_vars, dict_vars, dl_vars, ls_vars, wrap_vars, strm_vars, pmap_vars, ser_vars >>
peers_select == << snap_vars, resolve_vars, color_vars, fast_vars, tile_vars, tkey_vars, dict_vars, dl_vars, ls_vars, wrap_vars, strm_vars, pmap_vars, ser_vars >>
peers_color == << snap_vars, resolve_vars, select_vars, fast_vars, tile_vars, tkey_vars, dict_vars, dl_vars, ls_vars, wrap_vars, strm_vars, pmap_vars, ser_vars >>
peers_fast == << snap_vars, resolve_vars, select_vars, color_vars, tile_vars, tkey_vars, dict_vars, dl_vars, ls_vars, wrap_vars, strm_vars, pmap_vars, ser_vars >>
peers_tile == << snap_vars, resolve_vars, select_vars, color_vars, fast_vars, tkey_vars, dict_vars, dl_vars, ls_vars, wrap_vars, strm_vars, pmap_vars, ser_vars >>
peers_tkey == << snap_vars, resolve_vars, select_vars, color_vars, fast_vars, tile_vars, dict_vars, dl_vars, ls_vars, wrap_vars, strm_vars, pmap_vars, ser_vars >>
peers_dict == << snap_vars, resolve_vars, select_vars, color_vars, fast_vars, tile_vars, tkey_vars, dl_vars, ls_vars, wrap_vars, strm_vars, pmap_vars, ser_vars >>
peers_dl == << snap_vars, resolve_vars, select_vars, color_vars, fast_vars, tile_vars, tkey_vars, dict_vars, ls_vars, wrap_vars, strm_vars, pmap_vars, ser_vars >>
peers_ls == << snap_vars, resolve_vars, select_vars, color_vars, fast_vars, tile_vars, tkey_vars, dict_vars, dl_vars, wrap_vars, strm_vars, pmap_vars, ser_vars >>
peers_wrap == << snap_vars, resolve_vars, select_vars, color_vars, fast_vars, tile_vars, tkey_vars, dict_vars, dl_vars, ls_vars, strm_vars, pmap_vars, ser_vars >>
peers_strm == << snap_vars, resolve_vars, select_vars, color_vars, fast_vars, tile_vars, tkey_vars, dict_vars, dl_vars, ls_vars, wrap_vars, pmap_vars, ser_vars >>
peers_pmap == << snap_vars, resolve_vars, select_vars, color_vars, fast_vars, tile_vars, tkey_vars, dict_vars, dl_vars, ls_vars, wrap_vars, strm_vars, ser_vars >>
peers_ser == << snap_vars, resolve_vars, select_vars, color_vars, fast_vars, tile_vars, tkey_vars, dict_vars, dl_vars, ls_vars, wrap_vars, strm_vars, pmap_vars >>

\* ------------------------------------------------------- GRIB message data
\* g.minimum / g.maximum of the message selected for a key (lines 362-363).
MsgMinMax(k) == IF k = "k1" THEN <<1, 3>> ELSE <<2, 4>>

Min2(a, b) == IF a <= b THEN a ELSE b
Max2(a, b) == IF a >= b THEN a ELSE b

\* json.dumps((updated_min, updated_max)), line 1021: the text of a JSON array
\* of two numbers.
JsonDumps(pair) == << "[", pair[1], ",", pair[2], "]" >>

\* json.loads(cached), line 1014: the two numbers of the array.
JsonLoads(text) == << text[2], text[4] >>

\* A bug the claims must detect: the new pair replaces the stored one.
MergeMinMaxOverwrite(cached, new) == new

\* update_and_get_min_max, lines 1012-1020: the pair computed from the text
\* read from the cache and the new (min, max).
MergeMinMax(cached, new) ==
    IF cached # None
    THEN << Min2(JsonLoads(cached)[1], new[1]), Max2(JsonLoads(cached)[2], new[2]) >>
    ELSE new

\* ------------------------------------------------------------ thread steps
\* The call returns v: its locals die with its frame.
Return(t, v) ==
    /\ pc' = [pc EXCEPT ![t] = "done"]
    /\ t_val' = [t_val EXCEPT ![t] = v]
    /\ t_out' = [t_out EXCEPT ![t] = IF v = None THEN "absent" ELSE "value"]
    /\ t_lock' = [t_lock EXCEPT ![t] = 0]
    /\ t_mm' = [t_mm EXCEPT ![t] = None]

\* An exception leaves the call.
Raise(t) ==
    /\ pc' = [pc EXCEPT ![t] = "done"]
    /\ t_val' = [t_val EXCEPT ![t] = None]
    /\ t_out' = [t_out EXCEPT ![t] = "raised"]
    /\ t_lock' = [t_lock EXCEPT ![t] = 0]
    /\ t_mm' = [t_mm EXCEPT ![t] = None]

\* The call moves on to the statement at label, its local value being v.
Goto(t, label, v) ==
    /\ pc' = [pc EXCEPT ![t] = label]
    /\ t_val' = [t_val EXCEPT ![t] = v]
    /\ UNCHANGED << t_out, t_lock, t_mm >>

\* Leaving "with lock:" (line 1049), by return or by exception.
Release(t) == lock_owner' = [lock_owner EXCEPT ![t_lock[t]] = 0]

\* The lock object a threading.Lock() call yields: one no one refers to.
FreshLock ==
    LET used == {key_locks[k] : k \in InterpKeys} \cup {t_lock[u] : u \in Threads}
    IN CHOOSE l \in Locks : l \notin used /\ \A m \in Locks : m \notin used => l <= m

\* Thread t begins its call: the calls are numbered in the order in which
\* they begin.
Begins(t) == pc[t] = "new" /\ \A u \in DOMAIN pc : u < t => pc[u] # "new"

\* What the steps of a build leave alone: the environment, the operation the
\* thread runs, the debounced write path.
env_vars == << cache_up, file_ok, n_faults, t_op, deb_vars, merge_vars, pt_vars, aux_vars >>

\* =========================================================================
\* ModelService.get_or_build_interpolator and _get_or_compute
\* =========================================================================

\* Entry of get_or_build_interpolator(model, param_key, hour_offset, ...):
\* the cache key is fixed (line 343).
call_get_or_build(t, k) ==
    /\ Begins(t)
    /\ t_key' = [t_key EXCEPT ![t] = k]
    /\ pc' = [pc EXCEPT ![t] = "gi_l1"]
    /\ t_out' = [t_out EXCEPT ![t] = "running"]
    /\ t_op' = [t_op EXCEPT ![t] = "build"]
    /\ UNCHANGED << local_cache, cache, minmax, key_locks, lock_owner, t_val,
                    t_lock, t_mm, t_raced, cache_up, file_ok, n_faults,
                    deb_vars, mm_inputs, merge_vars, pt_vars, aux_vars, ok_builds, lost >>

\* get_interpolator, lines 53-55: the local cache is consulted first.
get_interpolator_local(t) ==
    /\ pc[t] = "gi_l1"
    /\ IF local_cache[t_key[t]] # None
       THEN Return(t, local_cache[t_key[t]])
       ELSE Goto(t, "gi_l2", None)
    /\ UNCHANGED << local_cache, cache, minmax, key_locks, lock_owner, t_key,
                    t_raced, env_vars, mm_inputs, ok_builds, lost >>

\* get_interpolator, lines 56-58 and 61: the shared cache; a miss returns
\* None, on which get_or_build_interpolator goes on to _get_or_compute
\* (lines 376-378).
get_interpolator_shared(t) ==
    /\ pc[t] = "gi_l2"
    /\ cache_up
    /\ IF cache[t_key[t]] # None
       THEN Goto(t, "gi_fill", cache[t_key[t]])
       ELSE IF t_op[t] = "build"
            THEN Goto(t, "goc_get1", None)
            ELSE Return(t, None)
    /\ UNCHANGED << local_cache, cache, minmax, key_locks, lock_owner, t_key,
                    t_raced, env_vars, mm_inputs, ok_builds, lost >>

\* Line 56 with the backend down: cache.get raises, and nothing on the way up
\* to the caller of get_or_build_interpolator (line 375) catches it.
get_interpolator_shared_raise(t) ==
    /\ pc[t] = "gi_l2"
    /\ ~cache_up
    /\ Raise(t)
    /\ UNCHANGED << local_cache, cache, minmax, key_locks, lock_owner, t_key,
                    t_raced, env_vars, mm_inputs, ok_builds, lost >>

\* get_interpolator, lines 59-60: populate the local cache with the value read.
get_interpolator_fill(t) ==
    /\ pc[t] = "gi_fill"
    /\ local_cache' = [local_cache EXCEPT ![t_key[t]] = t_val[t]]
    /\ Return(t, t_val[t])
    /\ UNCHANGED << cache, minmax, key_locks, lock_owner, t_key,
                    t_raced, env_vars, mm_inputs, ok_builds, lost >>

\* _get_or_compute, lines 1045-1047 (through _cache_get, lines 1028-1035).
cache_get_first(t) ==
    /\ pc[t] = "goc_get1"
    /\ cache_up
    /\ IF cache[t_key[t]] # None
       THEN Return(t, cache[t_key[t]])
       ELSE Goto(t, "goc_lock", None)
    /\ UNCHANGED << local_cache, cache, minmax, key_locks, lock_owner, t_key,
                    t_raced, env_vars, mm_inputs, ok_builds, lost >>

\* _cache_get, line 1029: cache.get stands outside the try of lines 1031-1034.
cache_get_first_raise(t) ==
    /\ pc[t] = "goc_get1"
    /\ ~cache_up
    /\ Raise(t)
    /\ UNCHANGED << local_cache, cache, minmax, key_locks, lock_owner, t_key,
                    t_raced, env_vars, mm_inputs, ok_builds, lost >>

\* A bug the claims must detect: every caller stores a lock of its own.
key_locks_overwrite(t) ==
    /\ pc[t] = "goc_lock"
    /\ key_locks' = [key_locks EXCEPT ![t_key[t]] = FreshLock]
    /\ t_lock' = [t_lock EXCEPT ![t] = FreshLock]
    /\ pc' = [pc EXCEPT ![t] = "goc_acq"]
    /\ UNCHANGED << local_cache, cache, minmax, lock_owner, t_key, t_val,
                    t_mm, t_out, t_raced, env_vars, mm_inputs, ok_builds, lost >>

\* _get_or_compute, line 1048: dict.setdefault is one atomic step; the caller
\* ends up with the lock object the dict holds.
key_locks_setdefault(t) ==
    /\ pc[t] = "goc_lock"
    /\ key_locks' = IF key_locks[t_key[t]] = 0
                    THEN [key_locks EXCEPT ![t_key[t]] = FreshLock]
                    ELSE key_locks
    /\ t_lock' = [t_lock EXCEPT ![t] = key_locks'[t_key[t]]]
    /\ pc' = [pc EXCEPT ![t] = "goc_acq"]
    /\ UNCHANGED << local_cache, cache, minmax, lock_owner, t_key, t_val,
                    t_mm, t_out, t_raced, env_vars, mm_inputs, ok_builds, lost >>

\* _get_or_compute, line 1049: "with lock" blocks until the lock is free.
lock_acquire(t) ==
    /\ pc[t] = "goc_acq"
    /\ lock_owner[t_lock[t]] = 0
    /\ lock_owner' = [lock_owner EXCEPT ![t_lock[t]] = t]
    /\ pc' = [pc EXCEPT ![t] = "goc_get2"]
    /\ UNCHANGED << local_cache, cache, minmax, key_locks, t_key, t_val, t_lock,
                    t_mm, t_out, t_raced, env_vars, mm_inputs, ok_builds, lost >>

\* A bug the claims must detect: no second look at the cache under the lock.
cache_get_second_skipped(t) ==
    /\ pc[t] = "goc_get2"
    /\ cache_up
    /\ Goto(t, "c_resolve", None)
    /\ UNCHANGED << local_cache, cache, minmax, key_locks, lock_owner, t_key,
                    t_raced, env_vars, mm_inputs, ok_builds, lost >>

\* _get_or_compute, lines 1051-1053: the re-check under the lock.
cache_get_second(t) ==
    /\ pc[t] = "goc_get2"
    /\ cache_up
    /\ IF cache[t_key[t]] # None
       THEN Return(t, cache[t_key[t]]) /\ Release(t)
       ELSE Goto(t, "c_resolve", None) /\ UNCHANGED lock_owner
    /\ UNCHANGED << local_cache, cache, minmax, key_locks, t_key,
                    t_raced, env_vars, mm_inputs, ok_builds, lost >>

\* Line 1051 with the backend down: the exception leaves the with block,
\* which releases the lock.
cache_get_second_raise(t) ==
    /\ pc[t] = "goc_get2"
    /\ ~cache_up
    /\ Raise(t)
    /\ Release(t)
    /\ UNCHANGED << local_cache, cache, minmax, key_locks, t_key,
                    t_raced, env_vars, mm_inputs, ok_builds, lost >>

\* The calls under way on the key of t, other than t's, see compute run.
MarkRaced(t) ==
    t_raced' = [u \in Threads |->
                  t_raced[u] \/ (u # t /\ t_key[u] = t_key[t]
                                 /\ pc[u] \notin {"new", "done"})]

\* compute(), lines 345-360: resolve the file, the parameter name and the
\* message, and triangulate. Without a file (or name, or message, or with a
\* failed triangulation) the result is None. build_param_map_for_offset
\* (line 348) reads the shared cache through _get_or_compute.
compute_resolve(t) ==
    /\ pc[t] = "c_resolve"
    /\ file_ok[t_key[t]] => cache_up
    /\ MarkRaced(t)
    /\ IF file_ok[t_key[t]]
       THEN Goto(t, "c_mmget", None)
       ELSE Goto(t, "goc_store", None)
    /\ UNCHANGED << local_cache, cache, minmax, key_locks, lock_owner, t_key,
                    env_vars, mm_inputs, ok_builds, lost >>

\* A bug the claims must detect: the exception leaves the call with the
\* lock still held.
compute_resolve_raise_locked(t) ==
    /\ pc[t] = "c_resolve"
    /\ file_ok[t_key[t]]
    /\ ~cache_up
    /\ MarkRaced(t)
    /\ Raise(t)
    /\ UNCHANGED << local_cache, cache, minmax, key_locks, lock_owner, t_key,
                    env_vars, mm_inputs, ok_builds, lost >>

\* Line 348 with the backend down: _cache_get raises outside the try of
\* lines 352-374; the with block of _get_or_compute releases the lock.
compute_resolve_raise(t) ==
    /\ pc[t] = "c_resolve"
    /\ file_ok[t_key[t]]
    /\ ~cache_up
    /\ MarkRaced(t)
    /\ Raise(t)
    /\ Release(t)
    /\ UNCHANGED << local_cache, cache, minmax, key_locks, t_key,
                    env_vars, mm_inputs, ok_builds, lost >>

\* compute(), line 364 -> update_and_get_min_max, line 1011: read the pair.
\* With the backend down the exception is caught at line 372: result None.
compute_minmax_get(t) ==
    /\ pc[t] = "c_mmget"
    /\ IF cache_up
       THEN /\ pc' = [pc EXCEPT ![t] = "c_mmset"]
            /\ t_mm' = [t_mm EXCEPT ![t] = minmax]
            /\ UNCHANGED << t_val, t_out, t_lock >>
       ELSE Goto(t, "goc_store", None)
    /\ UNCHANGED << local_cache, cache, minmax, key_locks, lock_owner, t_key,
                    t_raced, env_vars, mm_inputs, ok_builds, lost >>

\* update_and_get_min_max, lines 1012-1022, then compute(), lines 364-371: the
\* merged pair is written back and the interpolator carries it.
compute_minmax_set(t) ==
    /\ pc[t] = "c_mmset"
    /\ LET k == t_key[t]
           mm == MergeMinMax(t_mm[t], MsgMinMax(k))
           ip == << ok_builds[k] + 1, mm[1], mm[2] >>
       IN IF cache_up
          THEN /\ minmax' = JsonDumps(mm)
               /\ mm_inputs' = mm_inputs \cup {MsgMinMax(k)}
               /\ Goto(t, "goc_store", ip)
               /\ ok_builds' = [ok_builds EXCEPT ![k] = @ + 1]
          ELSE /\ Goto(t, "goc_store", None)
               /\ UNCHANGED << minmax, mm_inputs, ok_builds >>
    /\ UNCHANGED << local_cache, cache, key_locks, lock_owner, t_key,
                    t_raced, env_vars, lost >>

\* _get_or_compute, lines 1055-1057: store a result that is not None
\* (_cache_set swallows a failing set, lines 1038-1041), release, return.
cache_set_result(t) ==
    /\ pc[t] = "goc_store"
    /\ LET k == t_key[t] IN
       IF t_val[t] # None
       THEN IF cache_up
            THEN cache' = [cache EXCEPT ![k] = t_val[t]] /\ UNCHANGED lost
            ELSE lost' = [lost EXCEPT ![k] = @ + 1] /\ UNCHANGED cache
       ELSE UNCHANGED << cache, lost >>
    /\ Return(t, t_val[t])
    /\ Release(t)
    /\ UNCHANGED << local_cache, minmax, key_locks, t_key,
                    t_raced, env_vars, mm_inputs, ok_builds >>

\* ------------------------------------------------------------ environment
thread_vars == << pc, t_key, t_val, t_lock, t_mm, t_out, t_raced, t_op,
                 deb_vars, mm_inputs, merge_vars, pt_vars, aux_vars >>

\* The shared backend becomes unreachable (Redis down): get and set raise.
cache_fail ==
    /\ cache_up
    /\ n_faults < MaxFaults
    /\ cache_up' = FALSE
    /\ n_faults' = n_faults + 1
    /\ UNCHANGED << local_cache, cache, minmax, file_ok, key_locks, lock_owner,
                    thread_vars, ok_builds, lost >>

cache_recover ==
    /\ ~cache_up
    /\ cache_up' = TRUE
    /\ UNCHANGED << local_cache, cache, minmax, file_ok, n_faults, key_locks,
                    lock_owner, thread_vars, ok_builds, lost >>

\* RedisCacheBackend.set(..., ex=expire): the server drops the entry at its TTL.
cache_expire(k) ==
    /\ cache[k] # None
    /\ n_faults < MaxFaults
    /\ cache' = [cache EXCEPT ![k] = None]
    /\ lost' = [lost EXCEPT ![k] = @ + 1]
    /\ n_faults' = n_faults + 1
    /\ UNCHANGED << local_cache, cache_up, minmax, file_ok, key_locks, lock_owner,
                    thread_vars, ok_builds >>

\* The downloader puts the forecast file of a key on disk.
file_arrives(k) ==
    /\ ~file_ok[k]
    /\ file_ok' = [file_ok EXCEPT ![k] = TRUE]
    /\ UNCHANGED << local_cache, cache, cache_up, minmax, n_faults, key_locks,
                    lock_owner, thread_vars, ok_builds, lost >>

\* A service object after construction (InterpolatorCachingService.__init__,
\* ModelService.__init__), with the threads in D about to call it.
ServiceFresh(D) ==
    /\ local_cache = [k \in InterpKeys |-> None]
    /\ cache_up = TRUE
    /\ file_ok = [k \in InterpKeys |-> FALSE]
    /\ key_locks = [k \in InterpKeys |-> 0]
    /\ lock_owner = [l \in Locks |-> 0]
    /\ pc = [t \in D |-> "new"]
    /\ t_key = [t \in D |-> "k1"]
    /\ t_val = [t \in D |-> None]
    /\ t_lock = [t \in D |-> 0]
    /\ t_mm = [t \in D |-> None]
    /\ t_out = [t \in D |-> "none"]
    /\ t_raced = [t \in D |-> FALSE]
    /\ n_faults = 0
    /\ ok_builds = [k \in InterpKeys |-> 0]
    /\ lost = [k \in InterpKeys |-> 0]
    /\ t_op = [t \in D |-> "none"]
    /\ debounce_map = [k \in InterpKeys |-> None]
    /\ timer = [t \in D |-> "none"]
    /\ cb_val = [t \in D |-> None]
    /\ last_reg = [k \in InterpKeys |-> None]
    /\ late = [k \in InterpKeys |-> FALSE]
    /\ deb_log = [k \in InterpKeys |-> << >>]
    /\ set_seq = [k \in InterpKeys |-> 0]
    /\ set_floor = [k \in InterpKeys |-> 0]
    /\ t_floor = [t \in D |-> 0]

\* No min/max update has run.
MergeFresh ==
    /\ mm_inputs = {}
    /\ mm_ret = None
    /\ n_updates = 0

\* No point request has been made.
PointFresh ==
    /\ pt_pc = "idle"
    /\ pt_mode = "none"
    /\ pt_params = << >>
    /\ pt_offsets = << >>
    /\ pt_files = << >>
    /\ values_dict = << >>
    /\ futs = << >>
    /\ results = << >>
    /\ outstanding = << >>
    /\ completed_offsets = 0
    /\ final_results = << >>
    /\ progress = << >>

\* The request-level and pure-function parts before they run.
SnapFresh ==
    /\ snap_pc = "idle"
    /\ snap_in = 0
    /\ snap_out = 0

ResolveFresh ==
    /\ rs_pc = "idle"
    /\ rs_model = FALSE
    /\ rs_now = 0
    /\ rs_offset = 0
    /\ disk = {}
    /\ resolved = None

SelectFresh ==
    /\ sel_pc = "idle"
    /\ grbs = << >>
    /\ sel_level = {}
    /\ sel_type = {}
    /\ sel_step = {}
    /\ select_raises = TRUE
    /\ selected = None
    /\ sel_fallback = FALSE

ColorFresh ==
    /\ col_pc = "idle"
    /\ data_2d = << >>
    /\ missing_mask = None
    /\ col_gmin = 0
    /\ col_gmax = 0
    /\ col_slug = << >>
    /\ rgba = << >>

FastFresh ==
    /\ fi_pc = "idle"
    /\ query_pts = << >>
    /\ simplex_indices = << >>
    /\ fi_chunk_size = 0
    /\ fi_i = 0
    /\ fi_out = << >>
    /\ fi_writes = << >>

TileFresh ==
    /\ tl_pc = "idle"
    /\ grib_state = [k \in InterpKeys |-> "ok"]
    /\ tl_tiles = << >>
    /\ tl_first = << >>
    /\ tl_req = None
    /\ tl_resp = None
    /\ tl_ops = {}
    /\ tl_cause = "none"
    /\ tl_n = 0

TkeyFresh ==
    /\ tk_pc = "idle"
    /\ tk_file = << >>
    /\ tk_raises = FALSE
    /\ tk_up = TRUE
    /\ tk_store = << >>
    /\ tk_req = None
    /\ tk_resp = None
    /\ tk_n = 0

DictFresh ==
    /\ gd_pc = [t \in Threads |-> "idle"]
    /\ gd_params = [t \in Threads |-> {}]
    /\ gd_values = [t \in Threads |-> {}]
    /\ gd_store = << >>
    /\ gd_up = TRUE
    /\ gd_grib = TRUE
    /\ gd_lost = {}
    /\ gd_dup = {}
    /\ gd_n = 0

DlFresh ==
    /\ dl_pc = "idle"
    /\ dl_s3 = {}
    /\ dl_local = {}
    /\ dl_map = << >>
    /\ dl_pulled = FALSE
    /\ dl_no_cleanup = FALSE
    /\ dl_old = "kept"
    /\ dl_runs = 0

LsFresh ==
    /\ ls_data = [k \in InterpKeys |-> FALSE]
    /\ ls_time = [k \in InterpKeys |-> "none"]
    /\ ls_lock = {}
    /\ ls_pc = [t \in LsThreads |-> "idle"]
    /\ ls_op = [t \in LsThreads |-> None]
    /\ ls_ret = [t \in LsThreads |-> "none"]
    /\ tt_l2 = [k \in InterpKeys |-> FALSE]
    /\ tt_timer = [k \in InterpKeys |-> FALSE]
    /\ tt_pub = [k \in InterpKeys |-> "none"]
    /\ tt_resp = None

WrapFresh ==
    /\ wr_pc = "idle"
    /\ wr_lon = 0
    /\ wr_out = 0

StrmFresh ==
    /\ st_n = 0
    /\ st_k = 0
    /\ st_thread = "none"
    /\ st_ready = << >>
    /\ st_queue = << >>
    /\ st_done = FALSE
    /\ st_gen = "none"
    /\ st_out = << >>

PmapFresh ==
    /\ pm_file = "none"
    /\ pm_cache = None
    /\ pm_n = 0
    /\ pm_asked = "none"
    /\ pm_out = None

SerFresh ==
    /\ se_pc = "idle"
    /\ se_entries = << >>
    /\ se_offsets = << >>
    /\ se_futs = << >>
    /\ se_results = << >>
    /\ se_final = << >>

AuxFresh ==
    /\ SnapFresh
    /\ ResolveFresh
    /\ SelectFresh
    /\ ColorFresh
    /\ FastFresh
    /\ TileFresh
    /\ TkeyFresh
    /\ DictFresh
    /\ DlFresh
    /\ LsFresh
    /\ WrapFresh
    /\ StrmFresh
    /\ PmapFresh
    /\ SerFresh

\* The caches and the services after construction, nothing called yet.
CoreFresh ==
    /\ ServiceFresh(Threads)
    /\ cache = [k \in InterpKeys |-> None]
    /\ minmax = None
    /\ MergeFresh
    /\ PointFresh

\* Everything outside one part is as constructed.
FreshOutside_snap ==
    /\ CoreFresh
    /\ ResolveFresh
    /\ SelectFresh
    /\ ColorFresh
    /\ FastFresh
    /\ TileFresh
    /\ TkeyFresh
    /\ DictFresh
    /\ DlFresh
    /\ LsFresh
    /\ WrapFresh
    /\ StrmFresh
    /\ PmapFresh
    /\ SerFresh
FreshOutside_resolve ==
    /\ CoreFresh
    /\ SnapFresh
    /\ SelectFresh
    /\ ColorFresh
    /\ FastFresh
    /\ TileFresh
    /\ TkeyFresh
    /\ DictFresh
    /\ DlFresh
    /\ LsFresh
    /\ WrapFresh
    /\ StrmFresh
    /\ PmapFresh
    /\ SerFresh
FreshOutside_select ==
    /\ CoreFresh
    /\ SnapFresh
    /\ ResolveFresh
    /\ ColorFresh
    /\ FastFresh
    /\ TileFresh
    /\ TkeyFresh
    /\ DictFresh
    /\ DlFresh
    /\ LsFresh
    /\ WrapFresh
    /\ StrmFresh
    /\ PmapFresh
    /\ SerFresh
FreshOutside_color ==
    /\ CoreFresh
    /\ SnapFresh
    /\ ResolveFresh
    /\ SelectFresh
    /\ FastFresh
    /\ TileFresh
    /\ TkeyFresh
    /\ DictFresh
    /\ DlFresh
    /\ LsFresh
    /\ WrapFresh
    /\ StrmFresh
    /\ PmapFresh
    /\ SerFresh
FreshOutside_fast ==
    /\ CoreFresh
    /\ SnapFresh
    /\ ResolveFresh
    /\ SelectFresh
    /\ ColorFresh
    /\ TileFresh
    /\ TkeyFresh
    /\ DictFresh
    /\ DlFresh
    /\ LsFresh
    /\ WrapFresh
    /\ StrmFresh
    /\ PmapFresh
    /\ SerFresh
FreshOutside_tile ==
    /\ CoreFresh
    /\ SnapFresh
    /\ ResolveFresh
    /\ SelectFresh
    /\ ColorFresh
    /\ FastFresh
    /\ TkeyFresh
    /\ DictFresh
    /\ DlFresh
    /\ LsFresh
    /\ WrapFresh
    /\ StrmFresh
    /\ PmapFresh
    /\ SerFresh
FreshOutside_tkey ==
    /\ CoreFresh
    /\ SnapFresh
    /\ ResolveFresh
    /\ SelectFresh
    /\ ColorFresh
    /\ FastFresh
    /\ TileFresh
    /\ DictFresh
    /\ DlFresh
    /\ LsFresh
    /\ WrapFresh
    /\ StrmFresh
    /\ PmapFresh
    /\ SerFresh
FreshOutside_dict ==
    /\ CoreFresh
    /\ SnapFresh
    /\ ResolveFresh
    /\ SelectFresh
    /\ ColorFresh
    /\ FastFresh
    /\ TileFresh
    /\ TkeyFresh
    /\ DlFresh
    /\ LsFresh
    /\ WrapFresh
    /\ StrmFresh
    /\ PmapFresh
    /\ SerFresh
FreshOutside_dl ==
    /\ CoreFresh
    /\ SnapFresh
    /\ ResolveFresh
    /\ SelectFresh
    /\ ColorFresh
    /\ FastFresh
    /\ TileFresh
    /\ TkeyFresh
    /\ DictFresh
    /\ LsFresh
    /\ WrapFresh
    /\ StrmFresh
    /\ PmapFresh
    /\ SerFresh
FreshOutside_ls ==
    /\ CoreFresh
    /\ SnapFresh
    /\ ResolveFresh
    /\ SelectFresh
    /\ ColorFresh
    /\ FastFresh
    /\ TileFresh
    /\ TkeyFresh
    /\ DictFresh
    /\ DlFresh
    /\ WrapFresh
    /\ StrmFresh
    /\ PmapFresh
    /\ SerFresh
FreshOutside_wrap ==
    /\ CoreFresh
    /\ SnapFresh
    /\ ResolveFresh
    /\ SelectFresh
    /\ ColorFresh
    /\ FastFresh
    /\ TileFresh
    /\ TkeyFresh
    /\ DictFresh
    /\ DlFresh
    /\ LsFresh
    /\ StrmFresh
    /\ PmapFresh
    /\ SerFresh
FreshOutside_strm ==
    /\ CoreFresh
    /\ SnapFresh
    /\ ResolveFresh
    /\ SelectFresh
    /\ ColorFresh
    /\ FastFresh
    /\ TileFresh
    /\ TkeyFresh
    /\ DictFresh
    /\ DlFresh
    /\ LsFresh
    /\ WrapFresh
    /\ PmapFresh
    /\ SerFresh
FreshOutside_pmap ==
    /\ CoreFresh
    /\ SnapFresh
    /\ ResolveFresh
    /\ SelectFresh
    /\ ColorFresh
    /\ FastFresh
    /\ TileFresh
    /\ TkeyFresh
    /\ DictFresh
    /\ DlFresh
    /\ LsFresh
    /\ WrapFresh
    /\ StrmFresh
    /\ SerFresh
FreshOutside_ser ==
    /\ CoreFresh
    /\ SnapFresh
    /\ ResolveFresh
    /\ SelectFresh
    /\ ColorFresh
    /\ FastFresh
    /\ TileFresh
    /\ TkeyFresh
    /\ DictFresh
    /\ DlFresh
    /\ LsFresh
    /\ WrapFresh
    /\ StrmFresh
    /\ PmapFresh

InitFlight ==
    /\ ServiceFresh(Threads)
    /\ cache = [k \in InterpKeys |-> None]
    /\ minmax = None
    /\ MergeFresh
    /\ PointFresh
    /\ AuxFresh

NextFlight ==
    \/ \E t \in Threads, k \in InterpKeys : call_get_or_build(t, k)
    \/ \E t \in Threads : get_interpolator_local(t)
    \/ \E t \in Threads : get_interpolator_shared(t)
    \/ \E t \in Threads : get_interpolator_shared_raise(t)
    \/ \E t \in Threads : get_interpolator_fill(t)
    \/ \E t \in Threads : cache_get_first(t)
    \/ \E t \in Threads : cache_get_first_raise(t)
    \/ \E t \in Threads : key_locks_setdefault(t)
    \/ \E t \in Threads : lock_acquire(t)
    \/ \E t \in Threads : cache_get_second(t)
    \/ \E t \in Threads : cache_get_second_raise(t)
    \/ \E t \in Threads : compute_resolve(t)
    \/ \E t \in Threads : compute_resolve_raise(t)
    \/ \E t \in Threads : compute_minmax_get(t)
    \/ \E t \in Threads : compute_minmax_set(t)
    \/ \E t \in Threads : cache_set_result(t)
    \/ cache_fail
    \/ cache_recover
    \/ \E k \in InterpKeys : cache_expire(k)
    \/ \E k \in InterpKeys : file_arrives(k)

SpecFlight == InitFlight /\ [][NextFlight]_vars

\* The steps of the call of thread t once it has begun.
FlightStep(t) ==
    \/ get_interpolator_local(t)
    \/ get_interpolator_shared(t)
    \/ get_interpolator_shared_raise(t)
    \/ get_interpolator_fill(t)
    \/ cache_get_first(t)
    \/ cache_get_first_raise(t)
    \/ key_locks_setdefault(t)
    \/ lock_acquire(t)
    \/ cache_get_second(t)
    \/ cache_get_second_raise(t)
    \/ compute_resolve(t)
    \/ compute_resolve_raise(t)
    \/ compute_minmax_get(t)
    \/ compute_minmax_set(t)
    \/ cache_set_result(t)

\* The same system with every thread that can take a step scheduled in the
\* end: the interpreter hands the GIL to each runnable thread, and a thread
\* blocked on a threading.Lock is woken once the lock is free.
SpecFlightLive ==
    InitFlight /\ [][NextFlight]_vars /\ \A t \in Threads : WF_vars(FlightStep(t))

\* A thread is executing the compute function passed to _get_or_compute.
InCompute(t) == pc[t] \in {"c_resolve", "c_mmget", "c_mmset"}

\* =========================================================================
\* InterpolatorCachingService: local cache, debounced write to the shared cache
\* =========================================================================

\* Calls of set_interpolator and get_interpolator on one service object, each
\* made by a thread of its own.
NOps == 3
Ops == 1..NOps

\* An interpolator another worker process stored in the shared cache.
PeerIp == << 0, 1, 3 >>

\* The interpolator a set_interpolator call passes: they are told apart by the
\* order n in which the calls reach line 77.
SetIp(n) == << n, 1, 3 >>

\* What the steps of set_interpolator, get_interpolator and the timers leave
\* alone: the build's state and its environment.
flight_vars == << cache_up, minmax, file_ok, key_locks, lock_owner, t_lock, t_mm,
                  t_raced, n_faults, ok_builds, lost, mm_inputs, merge_vars,
                  pt_vars, aux_vars >>

\* get_interpolator(key), lines 53-55: the call begins by consulting the local
\* cache.
call_get_interpolator(t, k) ==
    /\ Begins(t)
    /\ t_key' = [t_key EXCEPT ![t] = k]
    /\ t_op' = [t_op EXCEPT ![t] = "get"]
    /\ t_floor' = [t_floor EXCEPT ![t] = set_floor[k]]
    /\ pc' = [pc EXCEPT ![t] = IF local_cache[k] # None THEN "done" ELSE "gi_l2"]
    /\ t_val' = [t_val EXCEPT ![t] = local_cache[k]]
    /\ t_out' = [t_out EXCEPT ![t] = IF local_cache[k] # None THEN "value" ELSE "running"]
    /\ UNCHANGED << local_cache, cache, debounce_map, timer, cb_val,
                    last_reg, late, deb_log, set_seq, set_floor, flight_vars >>

\* set_interpolator(key, inter), line 77: the call begins by updating the
\* local cache (LocalStorage.set, expire = 0: the entry carries no time and
\* never expires).
call_set_interpolator(t, k) ==
    /\ Begins(t)
    /\ t_key' = [t_key EXCEPT ![t] = k]
    /\ t_op' = [t_op EXCEPT ![t] = "set"]
    /\ local_cache' = [local_cache EXCEPT ![k] = SetIp(set_seq[k] + 1)]
    /\ set_seq' = [set_seq EXCEPT ![k] = @ + 1]
    /\ pc' = [pc EXCEPT ![t] = "si_reg"]
    /\ t_val' = [t_val EXCEPT ![t] = SetIp(set_seq[k] + 1)]
    /\ t_out' = [t_out EXCEPT ![t] = "running"]
    /\ UNCHANGED << cache, debounce_map, timer, cb_val, last_reg,
                    late, deb_log, set_floor, t_floor, flight_vars >>

\* A bug the claims must detect: the pending timer is left to run.
set_interpolator_register_nocancel(t) ==
    /\ pc[t] = "si_reg"
    /\ LET k == t_key[t] IN
       /\ timer' = [timer EXCEPT ![t] = "armed"]
       /\ late' = [late EXCEPT ![k] =
                     @ \/ (last_reg[k] # None /\ debounce_map[k] = None)
                       \/ (debounce_map[k] # None /\ timer[debounce_map[k][2]] # "armed")]
       /\ debounce_map' = [debounce_map EXCEPT ![k] = << t_val[t], t >>]
       /\ last_reg' = [last_reg EXCEPT ![k] = << t_val[t], t >>]
       /\ set_floor' = [set_floor EXCEPT ![k] = Max2(@, t_val[t][1])]
    /\ Return(t, None)
    /\ UNCHANGED << local_cache, cache, t_key, t_op, cb_val, deb_log, set_seq,
                    t_floor, flight_vars >>

\* set_interpolator, lines 79-87, one step under debounce_lock: cancel the
\* timer the map holds for the key (Timer.cancel stops a timer that has not
\* fired, and does nothing to one that has), create a timer, record
\* (inter, timer), start the timer; the call returns.
set_interpolator_register(t) ==
    /\ pc[t] = "si_reg"
    /\ LET k == t_key[t] IN
       /\ timer' = [u \in Ops |->
                      IF u = t THEN "armed"
                      ELSE IF debounce_map[k] # None /\ u = debounce_map[k][2]
                              /\ timer[u] = "armed"
                           THEN "cancelled"
                           ELSE timer[u]]
       /\ late' = [late EXCEPT ![k] =
                     @ \/ (last_reg[k] # None /\ debounce_map[k] = None)
                       \/ (debounce_map[k] # None /\ timer[debounce_map[k][2]] # "armed")]
       /\ debounce_map' = [debounce_map EXCEPT ![k] = << t_val[t], t >>]
       /\ last_reg' = [last_reg EXCEPT ![k] = << t_val[t], t >>]
       /\ set_floor' = [set_floor EXCEPT ![k] = Max2(@, t_val[t][1])]
    /\ Return(t, None)
    /\ UNCHANGED << local_cache, cache, t_key, t_op, cb_val, deb_log, set_seq,
                    t_floor, flight_vars >>

\* threading.Timer: DEBOUNCE_INTERVAL has passed and the timer was not
\* cancelled: its thread calls _debounce_callback(key).
timer_fires(t) ==
    /\ timer[t] = "armed"
    /\ timer' = [timer EXCEPT ![t] = "fired"]
    /\ UNCHANGED << local_cache, cache, pc, t_key, t_val, t_out, t_op,
                    debounce_map, cb_val, last_reg, late, deb_log, set_seq,
                    set_floor, t_floor, flight_vars >>

\* _debounce_callback, lines 69-72, one step under debounce_lock: pop the
\* key's entry; with no entry the value is None and nothing is written.
debounce_callback_pop(t) ==
    /\ timer[t] = "fired"
    /\ LET k == t_key[t] IN
       IF debounce_map[k] # None
       THEN /\ cb_val' = [cb_val EXCEPT ![t] = debounce_map[k][1]]
            /\ debounce_map' = [debounce_map EXCEPT ![k] = None]
            /\ timer' = [timer EXCEPT ![t] = "writing"]
       ELSE /\ timer' = [timer EXCEPT ![t] = "done"]
            /\ UNCHANGED << cb_val, debounce_map >>
    /\ UNCHANGED << local_cache, cache, pc, t_key, t_val, t_out, t_op,
                    last_reg, late, deb_log, set_seq, set_floor, t_floor,
                    flight_vars >>

\* _debounce_callback, line 73 -> set_global_cache_val, line 65: pickle the
\* value and write it to the shared cache, debounce_lock no longer held.
debounce_callback_write(t) ==
    /\ timer[t] = "writing"
    /\ LET k == t_key[t] IN
       /\ cache' = [cache EXCEPT ![k] = cb_val[t]]
       /\ deb_log' = [deb_log EXCEPT ![k] = Append(@, cb_val[t])]
    /\ cb_val' = [cb_val EXCEPT ![t] = None]
    /\ timer' = [timer EXCEPT ![t] = "done"]
    /\ UNCHANGED << local_cache, pc, t_key, t_val, t_out, t_op, debounce_map,
                    last_reg, late, set_seq, set_floor, t_floor, flight_vars >>

\* A fresh service object in a worker process; the shared cache is empty or
\* holds interpolators stored by another worker.
InitCache ==
    /\ ServiceFresh(Ops)
    /\ cache \in [InterpKeys -> {None, PeerIp}]
    /\ minmax = None
    /\ MergeFresh
    /\ PointFresh
    /\ AuxFresh

NextCache ==
    \/ \E t \in Ops, k \in InterpKeys : call_get_interpolator(t, k)
    \/ \E t \in Ops, k \in InterpKeys : call_set_interpolator(t, k)
    \/ \E t \in Ops : get_interpolator_shared(t)
    \/ \E t \in Ops : get_interpolator_fill(t)
    \/ \E t \in Ops : set_interpolator_register(t)
    \/ \E t \in Ops : timer_fires(t)
    \/ \E t \in Ops : debounce_callback_pop(t)
    \/ \E t \in Ops : debounce_callback_write(t)

SpecCache == InitCache /\ [][NextCache]_vars

\* Every call has returned and no timer is pending or running its callback.
Quiescent ==
    /\ \A t \in Ops : pc[t] \in {"new", "done"}
    /\ \A t \in Ops : timer[t] \in {"none", "cancelled", "done"}

\* The timers of the set_interpolator calls on key k.
TimersOf(k) == {t \in Ops : t_key[t] = k /\ timer[t] # "none"}

\* =========================================================================
\* ModelService.update_and_get_min_max, applied sequentially
\* =========================================================================

\* Observed minima and maxima range over 0..MaxVal.
MaxVal == 3
\* Updates applied to the key.
MaxUpdates == 3

\* The (minimum, maximum) pairs of GRIB messages.
Pairs == {p \in (0..MaxVal) \X (0..MaxVal) : p[1] <= p[2]}

\* Everything but the min/max key and the record of its updates.
not_merge_vars == << local_cache, cache, cache_up, file_ok, key_locks, lock_owner,
                     pc, t_key, t_val, t_lock, t_mm, t_out, t_raced, n_faults,
                     ok_builds, lost, t_op, deb_vars, pt_vars, aux_vars >>

\* update_and_get_min_max(..., new_min, new_max), lines 1010-1022, run alone:
\* read the key, merge, write the key, return the merged pair.
update_and_get_min_max(new) ==
    /\ n_updates < MaxUpdates
    /\ minmax' = JsonDumps(MergeMinMax(minmax, new))
    /\ mm_ret' = MergeMinMax(minmax, new)
    /\ mm_inputs' = mm_inputs \cup {new}
    /\ n_updates' = n_updates + 1
    /\ UNCHANGED not_merge_vars

\* The key is absent, or holds the pair earlier updates left.
InitMerge ==
    /\ ServiceFresh(Threads)
    /\ cache = [k \in InterpKeys |-> None]
    /\ minmax \in {None} \cup {JsonDumps(p) : p \in Pairs}
    /\ mm_inputs = IF minmax = None THEN {} ELSE {JsonLoads(minmax)}
    /\ mm_ret = None
    /\ n_updates = 0
    /\ PointFresh
    /\ AuxFresh

NextMerge == \E new \in Pairs : update_and_get_min_max(new)

SpecMerge == InitMerge /\ [][NextMerge]_vars

\* =========================================================================
\* Point values and timeseries: the per-parameter fan-out
\* =========================================================================

\* Parameters in a request.
MaxParams == 2
\* total_days of a timeseries request.
MaxDays == 1
\* os.cpu_count() of the host: the size of the thread pools.
CpuCount == 2

\* Requested parameter slugs: "tmp" and "rh" evaluate; "nope" is no slug of
\* the parameter map; "gone" has no GRIB message (or one whose decoding
\* fails); "edge" has data on which interpolate_value raises.
ParamNames == {"tmp", "rh", "nope", "gone", "edge"}

Requests == UNION {[1..n -> ParamNames] : n \in 1..MaxParams}

\* The value and units of an evaluable parameter at an offset.
Val(name, off) == (IF name = "tmp" THEN 100 ELSE 200) + off
Units(name) == IF name = "tmp" THEN "K" ELSE "%"

\* list(range(start, start + total_days * 24 + 1, step_hours)), line 816.
Offsets(start, total_days, step_hours) ==
    [i \in 1..((total_days * 24) \div step_hours + 1) |-> start + (i - 1) * step_hours]

\* _get_or_build_value_cache_dictionary, lines 906-937, on an empty cached
\* dictionary: without a file the dictionary stays empty; a requested slug
\* the parameter map does not know is skipped (line 920); a slug whose
\* compute returns None (no message, decoding failed) gets a None entry
\* (line 932); the others get their arrays.
BuildDict(params, present) ==
    [name \in ParamNames |->
        IF ~present \/ ~(\E i \in 1..Len(params) : params[i] = name) \/ name = "nope"
        THEN "absent"
        ELSE IF name = "gone" THEN "null" ELSE "data"]

\* map_values, lines 726-746: the value of a parameter read from the
\* dictionary; every exception yields None.
MapValues(name, dict, off) ==
    IF dict[name] = "data" /\ name # "edge"
    THEN << Val(name, off), Units(name) >>
    ELSE None

\* A bug the claims must detect: a failed parameter leaves no entry.
PointAppendDroppingNone(rs, res) == IF res = None THEN rs ELSE Append(rs, res)

\* iterate_multiple_keys_against_geo_point, lines 781-784: the result of a
\* future, None included, is appended.
PointAppend(rs, res) == Append(rs, res)

\* ThreadPoolExecutor(max_workers): the futures run in the order of their
\* submission, at most max_workers at a time.
Running(j) ==
    /\ ~futs[j][3]
    /\ Cardinality({i \in 1..(j - 1) : ~futs[i][3]}) < CpuCount

\* The futures of one dictionary, one per requested parameter.
FuturesOf(oi, params) == [i \in 1..Len(params) |-> << oi, params[i], FALSE >>]

not_pt_vars == << local_cache, cache, cache_up, minmax, file_ok, key_locks,
                  lock_owner, pc, t_key, t_val, t_lock, t_mm, t_out, t_raced,
                  n_faults, ok_builds, lost, t_op, deb_vars, mm_inputs, merge_vars, aux_vars >>

\* iterate_multiple_keys_against_geo_point, lines 761-778: build the
\* dictionary of the offset, submit one future per requested parameter.
call_point_values(params, present) ==
    /\ pt_pc = "idle"
    /\ pt_mode' = "point"
    /\ pt_params' = params
    /\ pt_offsets' = << 0 >>
    /\ pt_files' = << present >>
    /\ values_dict' = << BuildDict(params, present) >>
    /\ futs' = FuturesOf(1, params)
    /\ pt_pc' = "collecting"
    /\ UNCHANGED << results, outstanding, completed_offsets, final_results, progress,
                    not_pt_vars >>

\* iterate_multiple_keys_against_geo_point, lines 779-784: a worker finishes
\* its parameter and as_completed hands the future to the collecting loop.
point_future_completes(j) ==
    /\ pt_pc = "collecting"
    /\ pt_mode = "point"
    /\ Running(j)
    /\ futs' = [futs EXCEPT ![j][3] = TRUE]
    /\ results' = PointAppend(results,
                     MapValues(futs[j][2], values_dict[futs[j][1]], pt_offsets[futs[j][1]]))
    /\ UNCHANGED << pt_pc, pt_mode, pt_params, pt_offsets, pt_files, values_dict,
                    outstanding, completed_offsets, final_results, progress, not_pt_vars >>

\* iterate_multiple_keys_against_geo_point, line 785.
point_values_return ==
    /\ pt_pc = "collecting"
    /\ pt_mode = "point"
    /\ \A j \in 1..Len(futs) : futs[j][3]
    /\ final_results' = results
    /\ pt_pc' = "returned"
    /\ UNCHANGED << pt_mode, pt_params, pt_offsets, pt_files, values_dict, futs,
                    results, outstanding, completed_offsets, progress, not_pt_vars >>

\* get_point_forecast_timeseries, lines 813-822: the offsets and the count of
\* futures expected per offset.
call_timeseries(params, total_days) ==
    /\ pt_pc = "idle"
    /\ pt_mode' = "series"
    /\ pt_params' = params
    /\ pt_offsets' = Offsets(0, total_days, 24)
    /\ outstanding' = [i \in 1..Len(Offsets(0, total_days, 24)) |-> Len(params)]
    /\ pt_pc' = "submitting"
    /\ UNCHANGED << pt_files, values_dict, futs, results, completed_offsets,
                    final_results, progress, not_pt_vars >>

\* get_point_forecast_timeseries, lines 825-832: for the next offset, build
\* its dictionary and submit one future per parameter.
timeseries_submit(present) ==
    /\ pt_pc = "submitting"
    /\ pt_files' = Append(pt_files, present)
    /\ values_dict' = Append(values_dict, BuildDict(pt_params, present))
    /\ futs' = futs \o FuturesOf(Len(values_dict) + 1, pt_params)
    /\ pt_pc' = IF Len(values_dict) + 1 = Len(pt_offsets) THEN "collecting" ELSE "submitting"
    /\ UNCHANGED << pt_mode, pt_params, pt_offsets, results, outstanding,
                    completed_offsets, final_results, progress, not_pt_vars >>

\* A bug the claims must detect: the callback is called for every future.
ProgressEveryFuture(calls, left, completed, total) ==
    Append(calls, << completed + 1, total >>)

\* get_point_forecast_timeseries, lines 849-853: when the last future of an
\* offset is taken, callback(completed_offsets, total_offsets) is called with
\* the count just incremented.
ProgressAfter(calls, left, completed, total) ==
    IF left = 1 THEN Append(calls, << completed + 1, total >>) ELSE calls

\* get_point_forecast_timeseries, lines 833-853: a worker finishes and the
\* collecting loop takes its future in the order of completion: a result
\* that is not None is appended; the offset's count goes down.
timeseries_future_completes(j) ==
    /\ pt_pc \in {"submitting", "collecting"}
    /\ pt_mode = "series"
    /\ j \in 1..Len(futs)
    /\ Running(j)
    /\ LET oi == futs[j][1]
           res == MapValues(futs[j][2], values_dict[oi], pt_offsets[oi])
       IN /\ results' = IF res # None
                        THEN Append(results, << pt_offsets[oi], futs[j][2], res[1], res[2] >>)
                        ELSE results
          /\ outstanding' = [outstanding EXCEPT ![oi] = @ - 1]
          /\ completed_offsets' = IF outstanding[oi] = 1
                                  THEN completed_offsets + 1
                                  ELSE completed_offsets
          /\ progress' = ProgressAfter(progress, outstanding[oi], completed_offsets,
                                       Len(pt_offsets))
    /\ futs' = [futs EXCEPT ![j][3] = TRUE]
    /\ UNCHANGED << pt_pc, pt_mode, pt_params, pt_offsets, pt_files, values_dict,
                    final_results, not_pt_vars >>

\* The parameter slugs of the results, each once, in the order in which they
\* first appear (the keys of the final_results dict, lines 855-859).
RECURSIVE GroupKeys(_)
GroupKeys(rs) ==
    IF rs = << >> THEN << >>
    ELSE LET init == GroupKeys(SubSeq(rs, 1, Len(rs) - 1))
             pk == rs[Len(rs)][2]
         IN IF \E i \in 1..Len(init) : init[i] = pk THEN init ELSE Append(init, pk)

\* A bug the claims must detect: the values of a group are left in the order
\* in which the futures completed.
UnsortedValues(vs) == vs

\* sorted(values, key=datetime), lines 864-868: a stable sort; the datetime
\* of a value grows with its offset.
RECURSIVE SortedValues(_)
SortedValues(vs) ==
    IF vs = << >> THEN << >>
    ELSE LET init == SortedValues(SubSeq(vs, 1, Len(vs) - 1))
             v == vs[Len(vs)]
             n == Cardinality({i \in 1..Len(init) : init[i][1] <= v[1]})
         IN SubSeq(init, 1, n) \o << v >> \o SubSeq(init, n + 1, Len(init))

\* The (datetime, value) entries of one parameter, in the order of results.
RECURSIVE ValuesOf(_, _)
ValuesOf(rs, pk) ==
    IF rs = << >> THEN << >>
    ELSE LET init == ValuesOf(SubSeq(rs, 1, Len(rs) - 1), pk)
             r == rs[Len(rs)]
         IN IF r[2] = pk THEN Append(init, << r[1], r[3] >>) ELSE init

\* The units of the first result of a parameter (line 859).
FirstUnits(rs, pk) ==
    rs[CHOOSE i \in 1..Len(rs) : rs[i][2] = pk /\ \A h \in 1..(i - 1) : rs[h][2] # pk][4]

\* get_point_forecast_timeseries, lines 854-870: one group per parameter slug
\* that has a result; the parameter's slug stands for the group's metadata.
GroupResults(rs) ==
    [g \in 1..Len(GroupKeys(rs)) |->
        << GroupKeys(rs)[g], FirstUnits(rs, GroupKeys(rs)[g]),
           SortedValues(ValuesOf(rs, GroupKeys(rs)[g])) >>]

\* get_point_forecast_timeseries, lines 854-870, once every future is taken.
timeseries_return ==
    /\ pt_pc = "collecting"
    /\ pt_mode = "series"
    /\ \A j \in 1..Len(futs) : futs[j][3]
    /\ final_results' = GroupResults(results)
    /\ pt_pc' = "returned"
    /\ UNCHANGED << pt_mode, pt_params, pt_offsets, pt_files, values_dict, futs,
                    results, outstanding, completed_offsets, progress, not_pt_vars >>

InitPoint ==
    /\ ServiceFresh(Threads)
    /\ cache = [k \in InterpKeys |-> None]
    /\ minmax = None
    /\ MergeFresh
    /\ PointFresh
    /\ AuxFresh

NextPoint ==
    \/ \E params \in Requests, present \in BOOLEAN : call_point_values(params, present)
    \/ \E j \in 1..Len(futs) : point_future_completes(j)
    \/ point_values_return
    \/ \E params \in Requests, d \in 0..MaxDays : call_timeseries(params, d)
    \/ \E present \in BOOLEAN : timeseries_submit(present)
    \/ \E j \in 1..Len(futs) : timeseries_future_completes(j)
    \/ timeseries_return

SpecPoint == InitPoint /\ [][NextPoint]_vars

\* =========================================================================
\* The forecast-hour grid: ModelService.process_hour_offset
\* (gfs_render/model_service.py 229-238)
\* =========================================================================
\* The largest hour offset handed to process_hour_offset, and the smallest.
MaxOffset == 390
MinOffset == 0 - 6

\* A snap that always rounds down to the grid.
process_hour_offset_floor(hour_offset) ==
    IF hour_offset <= 120 THEN hour_offset
    ELSE hour_offset - ((hour_offset - 120) % 3)

\* process_hour_offset (lines 229-238).
process_hour_offset(hour_offset) ==
    IF hour_offset <= 120 THEN hour_offset
    ELSE LET delta == hour_offset - 120
             change == delta % 3
         IN  IF change = 0 THEN hour_offset
             ELSE IF change = 1 THEN hour_offset - 1
             ELSE hour_offset + 1

\* One call of process_hour_offset on the offset drawn at the start.
call_process_hour_offset ==
    /\ snap_pc = "new"
    /\ snap_out' = process_hour_offset(snap_in)
    /\ snap_pc' = "done"
    /\ UNCHANGED << snap_in, others_snap >>

InitSnap ==
    /\ FreshOutside_snap
    /\ snap_pc = "new"
    /\ snap_in \in MinOffset..MaxOffset
    /\ snap_out = 0

NextSnap == call_process_hour_offset

SpecSnap == InitSnap /\ [][NextSnap]_vars

\* =========================================================================
\* The file resolver: build_run_init_times, find_date_run_fhr, get_grib_file
\* (gfs_render/model_service.py 217-227, 240-279)
\* =========================================================================
\* Times are counted from the midnight that began today (UTC): a run-init time
\* in hours, the current time in half hours, so that a difference can fall
\* exactly between two whole hours.
MaxFiles == 2
MaxFhr == 384
RunHours == {0, 6, 12, 18}
NowSlots == {1, 14}
ReqOffsets == {0 - 2, 0, 130, 385, 500}

\* range(-max_lookback, max_forward + 1), lines 217 and 220.
RunDays == (0 - 5)..1

\* A scan from the oldest run upwards.
SortForward(S) ==
    LET RECURSIVE up(_)
        up(R) == IF R = {} THEN << >>
                 ELSE LET m == CHOOSE a \in R : \A b \in R : a <= b
                      IN  << m >> \o up(R \ {m})
    IN  up(S)

\* runs.sort(reverse=True), line 226: the newest run first.
SortReverse(S) ==
    LET RECURSIVE down(_)
        down(R) == IF R = {} THEN << >>
                   ELSE LET m == CHOOSE a \in R : \A b \in R : a >= b
                        IN  << m >> \o down(R \ {m})
    IN  down(S)

\* build_run_init_times (lines 217-227): every RUN_HOURS hour of the dates
\* today-5 .. today+1, sorted.
build_run_init_times == SortReverse({24 * d + rh : d \in RunDays, rh \in RunHours})

\* int(round(diff_hrs)), line 256, on a difference given in half hours: Python
\* rounds a tie to the even neighbour.
RoundHours(half_hours) ==
    IF half_hours % 2 = 0 THEN half_hours \div 2
    ELSE LET q == half_hours \div 2
         IN  IF q % 2 = 0 THEN q ELSE q + 1

\* Lines 255-256: the whole hours from run rd to the target instant.
RawFhr(now, hour_offset, rd) == RoundHours(now + 2 * hour_offset - 2 * rd)

\* Line 257.
FhrFor(now, hour_offset, rd) == process_hour_offset(RawFhr(now, hour_offset, rd))

\* The path formed at lines 259-264: date folder, run folder, forecast hour.
PathOf(rd, fhr) == << rd \div 24, rd % 24, fhr >>

\* The loop of find_date_run_fhr (lines 254-266) from position i of runs.
RECURSIVE ScanRuns(_, _, _, _, _)
ScanRuns(runs, i, now, hour_offset, files) ==
    IF i > Len(runs) THEN None
    ELSE LET rd == runs[i]
             fhr == FhrFor(now, hour_offset, rd)
         IN  IF 0 <= fhr /\ fhr <= MaxFhr /\ PathOf(rd, fhr) \in files
             THEN PathOf(rd, fhr)
             ELSE ScanRuns(runs, i + 1, now, hour_offset, files)

\* find_date_run_fhr (lines 240-267).
find_date_run_fhr(known, now, hour_offset, files) ==
    IF ~known THEN None
    ELSE ScanRuns(build_run_init_times, 1, now, hour_offset, files)

\* get_grib_file (lines 269-279): the path is formed again and looked up again.
get_grib_file(known, now, hour_offset, files) ==
    LET found == find_date_run_fhr(known, now, hour_offset, files)
    IN  IF found = None THEN None
        ELSE IF found \in files THEN found ELSE None

call_get_grib_file ==
    /\ rs_pc = "new"
    /\ resolved' = get_grib_file(rs_model, rs_now, rs_offset, disk)
    /\ rs_pc' = "done"
    /\ UNCHANGED << rs_model, rs_now, rs_offset, disk, others_resolve >>

\* The files a scan can look for, and for a run whose hour is off the
\* three-hour grid the file of the unsnapped hour as well.
DiskUniverse(now, hour_offset) ==
    UNION {{PathOf(24 * d + rh, FhrFor(now, hour_offset, 24 * d + rh)),
            PathOf(24 * d + rh, RawFhr(now, hour_offset, 24 * d + rh))} :
           d \in RunDays, rh \in RunHours}

RECURSIVE SubsetsUpTo(_, _)
SubsetsUpTo(U, n) ==
    IF n = 0 THEN {{}}
    ELSE LET smaller == SubsetsUpTo(U, n - 1)
         IN  smaller \cup {S \cup {x} : S \in smaller, x \in U}

InitResolve ==
    /\ FreshOutside_resolve
    /\ rs_pc = "new"
    /\ rs_model \in BOOLEAN
    /\ rs_now \in NowSlots
    /\ rs_offset \in ReqOffsets
    /\ disk \in IF rs_model THEN SubsetsUpTo(DiskUniverse(rs_now, rs_offset), MaxFiles)
                ELSE {{}}
    /\ resolved = None

NextResolve == call_get_grib_file

SpecResolve == InitResolve /\ [][NextResolve]_vars

\* =========================================================================
\* The message selector: _select_grib_message and its fallbacks
\* (gfs_render/model_service.py 381-416, 444-564)
\* =========================================================================
\* A GRIB message is (name, typeOfLevel, level, stepType); a file is the
\* sequence of its messages. An optional argument of a request is the empty
\* set when it is None and the set of its one value otherwise.
MaxMsgs == 2
ParamName == "Temperature"
GribMessages ==
    ({ParamName} \X {"surface", "orderedSequenceData", "heightAboveGround", "atmosphere"}
                 \X {0, 2} \X {"instant", "avg"})
    \cup ({ParamName} \X {"isobaricInhPa"} \X {1000} \X {"instant", "avg"})
    \cup {<< "Other", "surface", 0, "instant" >>}

GribFiles == UNION {[1..n -> GribMessages] : n \in 0..MaxMsgs}

\* The messages grbs.select(**search) finds, in file order. A keyword that is
\* absent from the search (the empty set) does not filter.
Select(file, name, level, type_of_level, step_type) ==
    SelectSeq(file, LAMBDA g :
        /\ g[1] = name
        /\ (level = {} \/ g[3] \in level)
        /\ (type_of_level = {} \/ g[2] \in type_of_level)
        /\ (step_type = {} \/ g[4] \in step_type))

\* fetch_instant (lines 444-450).
fetch_instant(grb) ==
    IF Len(grb) = 1 THEN grb[1]
    ELSE LET filtered == SelectSeq(grb, LAMBDA g : g[4] = "instant")
         IN  IF Len(filtered) > 0 THEN filtered[1] ELSE None

\* get_priority (lines 453-462).
get_priority(item) ==
    IF item[2] = "surface" THEN 0
    ELSE IF item[2] = "orderedSequenceData" /\ item[3] \in {0, 1} THEN 1
    ELSE IF item[2] = "heightAboveGround" THEN 2
    ELSE IF item[2] = "atmosphere" /\ item[3] \in {0} THEN 3
    ELSE 99

\* matches.sort(key=get_priority), line 463: a stable sort.
SortByPriority(matches) ==
    SelectSeq(matches, LAMBDA g : get_priority(g) = 0)
    \o SelectSeq(matches, LAMBDA g : get_priority(g) = 1)
    \o SelectSeq(matches, LAMBDA g : get_priority(g) = 2)
    \o SelectSeq(matches, LAMBDA g : get_priority(g) = 3)
    \o SelectSeq(matches, LAMBDA g : get_priority(g) = 99)

\* pull_priority_layers (lines 452-464).
pull_priority_layers(matches) == fetch_instant(SortByPriority(matches))

\* fetch_near_surface_fallback (lines 466-480) has no return statement.
fetch_near_surface_fallback(found) == None

\* search_for_provided_level (lines 482-502): typeOfLevel and level are put
\* into the search even when they are None, and no message has a key equal to
\* None. An empty selection, raised or returned, gives None.
search_for_provided_level(file, name, type_of_level, level, step_type) ==
    LET found == IF type_of_level = {} \/ level = {} THEN << >>
                 ELSE Select(file, name, level, type_of_level, step_type)
    IN  IF Len(found) > 0 THEN found[1] ELSE None

\* search_height_above_ground (lines 504-516): stepType is put into the search
\* even when it is None.
search_height_above_ground(file, name, type_of_level, step_type) ==
    IF type_of_level = {"heightAboveGround"} THEN None
    ELSE LET found == IF step_type = {} THEN << >>
                      ELSE Select(file, name, {2}, {"heightAboveGround"}, step_type)
         IN  IF Len(found) > 0 THEN found[1] ELSE None

\* near_surface_levels, line 519.
near_surface_levels == << 1000, 975, 950, 925, 900, 850 >>

\* search_iso_surface (lines 518-528) from position i of near_surface_levels:
\* the first level with a message ends the search.
RECURSIVE search_iso_surface_from(_, _, _)
search_iso_surface_from(file, name, i) ==
    IF i > Len(near_surface_levels) THEN None
    ELSE LET found == Select(file, name, {near_surface_levels[i]}, {"isobaricInhPa"}, {})
         IN  IF Len(found) > 0 THEN fetch_instant(found)
             ELSE search_iso_surface_from(file, name, i + 1)

search_iso_surface(file, name) == search_iso_surface_from(file, name, 1)

\* A last step that gives up when the near-surface pick is empty.
search_param_only_strict(file, name) ==
    LET found == Select(file, name, {}, {}, {})
    IN  IF Len(found) > 0 THEN fetch_near_surface_fallback(found) ELSE None

\* search_param_only_and_find_surface (lines 530-540).
search_param_only_and_find_surface(file, name) ==
    LET found == Select(file, name, {}, {}, {})
    IN  IF Len(found) > 0
        THEN LET f == fetch_near_surface_fallback(found)
             IN  IF f # None THEN f ELSE found[1]
        ELSE None

\* fetch_with_fallbacks (lines 542-564).
fetch_with_fallbacks(file, name, type_of_level, level, step_type) ==
    LET a == search_for_provided_level(file, name, type_of_level, level, step_type)
        b == search_height_above_ground(file, name, type_of_level, step_type)
        c == search_iso_surface(file, name)
        d == search_param_only_and_find_surface(file, name)
    IN  IF a # None THEN a
        ELSE IF b # None THEN b
        ELSE IF c # None THEN c
        ELSE d

\* _select_grib_message (lines 381-416): the message returned, and whether
\* fetch_with_fallbacks was called. raises: select raises ValueError when
\* nothing matches (pygrib), which lands in the except clause of line 413.
select_grib_message(file, name, level, type_of_level, step_type, raises) ==
    LET sel == Select(file, name, level, type_of_level, step_type)
        fallback == << fetch_with_fallbacks(file, name, type_of_level, level, step_type), TRUE >>
    IN  IF Len(sel) = 0 /\ raises THEN fallback
        ELSE IF Len(sel) = 1 THEN << sel[1], FALSE >>
        ELSE IF Len(sel) = 0 /\ level # {} /\ type_of_level # {} /\ step_type # {}
             THEN << None, FALSE >>
        ELSE IF Len(sel) > 1 /\ pull_priority_layers(sel) # None
             THEN << pull_priority_layers(sel), FALSE >>
        ELSE fallback

call_select_grib_message ==
    /\ sel_pc = "new"
    /\ LET r == select_grib_message(grbs, ParamName, sel_level, sel_type, sel_step,
                                    select_raises)
       IN  /\ selected' = r[1]
           /\ sel_fallback' = r[2]
    /\ sel_pc' = "done"
    /\ UNCHANGED << grbs, sel_level, sel_type, sel_step, select_raises, others_select >>

InitSelect ==
    /\ FreshOutside_select
    /\ sel_pc = "new"
    /\ grbs \in GribFiles
    /\ sel_level \in {{}, {0}, {2}}
    /\ sel_type \in {{}, {"surface"}, {"heightAboveGround"}}
    /\ sel_step \in {{}, {"instant"}}
    /\ select_raises \in BOOLEAN
    /\ selected = None
    /\ sel_fallback = FALSE

NextSelect == call_select_grib_message

SpecSelect == InitSelect /\ [][NextSelect]_vars

\* =========================================================================
\* The colorizer: MapColors.colorize_grid (gfs_render/map_colors.py 267-310)
\* =========================================================================
\* A cell of the grid is ("nan") or ("num", v); the grid is the sequence of
\* its cells. A parameter name is the sequence of its words. A normalized
\* value is the exact fraction (numerator, denominator); a cell of the
\* raster is (colormap entry, alpha).
MaxCells == 2
NaN == << "nan" >>
Num(v) == << "num", v >>
Cells == {NaN} \cup {Num(v) : v \in 0..MaxVal}
Slugs == {<< "total", "Cloud", "cover" >>, << "temperature" >>, << "rain" >>,
          << "wind", "speed" >>}
GminChoices == {0, 1}
GmaxChoices == {1, 3, 100}

\* param_name.lower(), line 96, on one word.
Lower(w) == IF w = "Cloud" THEN "cloud" ELSE w

\* zero_clip (lines 92-97).
zero_clip(param_name) ==
    \E i \in 1..Len(param_name) :
        Lower(param_name[i]) \in {"cloud", "precipitation", "rain", "snow", "graupel",
                                  "mixing", "reflectivity"}

\* np.isnan(data_2d), line 281.
IsNan(grid) == [i \in 1..Len(grid) |-> grid[i] = NaN]

\* Normalize(vmin=gmin, vmax=gmax) applied to one cell (lines 286, 295): not
\* clipped; everything is 0 when vmin = vmax; NaN stays NaN.
Normalize(cell, gmin, gmax) ==
    IF cell = NaN THEN NaN
    ELSE IF gmin = gmax THEN Num(<< 0, 1 >>)
    ELSE Num(<< cell[2] - gmin, gmax - gmin >>)

\* normed_data < threshold with threshold = 0.02 (lines 302-303); a
\* comparison with NaN is false.
IsBelow(normed) == normed # NaN /\ normed[2][1] * 100 < 2 * normed[2][2]

\* cmap_obj(normed_data) and the conversion to 8 bits (lines 296-297) for one
\* cell: the entry of the 256-entry table and its alpha; NaN takes the "bad"
\* colour, which is transparent black.
Colormap(normed) ==
    IF normed = NaN THEN << "bad", 0 >>
    ELSE LET idx == (normed[2][1] * 256) \div normed[2][2]
         IN  << IF idx < 0 THEN 0 ELSE IF idx > 255 THEN 255 ELSE idx, 255 >>

\* A colorizer without the rule for missing cells.
MissingAlphaKept(alpha, masked) == alpha

\* rgba_8u[missing_mask, 3] = 0, line 308.
MissingAlpha(alpha, masked) == IF masked THEN 0 ELSE alpha

\* colorize_grid (lines 267-310).
colorize_grid(param_name, grid, gmin, gmax, mask_arg) ==
    LET mask == IF mask_arg = None THEN IsNan(grid) ELSE mask_arg
        tmp_data == [i \in 1..Len(grid) |-> IF mask[i] THEN Num(gmin) ELSE grid[i]]
        normed_data == [i \in 1..Len(grid) |-> Normalize(tmp_data[i], gmin, gmax)]
        rgba_8u == [i \in 1..Len(grid) |-> Colormap(normed_data[i])]
        clipped == [i \in 1..Len(grid) |->
                       IF zero_clip(param_name)
                       THEN << rgba_8u[i][1], IF IsBelow(normed_data[i]) THEN 0 ELSE 255 >>
                       ELSE rgba_8u[i]]
    IN  [i \in 1..Len(grid) |-> << clipped[i][1], MissingAlpha(clipped[i][2], mask[i]) >>]

call_colorize_grid ==
    /\ col_pc = "new"
    /\ rgba' = colorize_grid(col_slug, data_2d, col_gmin, col_gmax, missing_mask)
    /\ col_pc' = "done"
    /\ UNCHANGED << data_2d, missing_mask, col_gmin, col_gmax, col_slug, others_color >>

InitColor ==
    /\ FreshOutside_color
    /\ col_pc = "new"
    /\ data_2d \in UNION {[1..n -> Cells] : n \in 1..MaxCells}
    /\ missing_mask \in {None} \cup [1..Len(data_2d) -> BOOLEAN]
    /\ col_gmin \in GminChoices
    /\ col_gmax \in {g \in GmaxChoices : g >= col_gmin}
    /\ col_slug \in Slugs
    /\ rgba = << >>

NextColor == call_colorize_grid

SpecColor == InitColor /\ [][NextColor]_vars

\* =========================================================================
\* Barycentric evaluation: evaluate_chunk and fast_interpolate
\* (gfs_render/fast_interpolation.py 9-40, 43-67)
\* =========================================================================
\* Arrays are indexed from 0 as in the source. The triangulation is fixed: two
\* simplices in the plane over four vertices, with whole-number transforms so
\* that every product is exact. The query points and their simplex indices are
\* drawn.
MaxPts == 3
ChunkSize == 5000
Ndim == 2
Transform ==
    [s \in 0..1 |->
        IF s = 0 THEN [j \in 0..2 |-> IF j = 0 THEN [k \in 0..1 |-> IF k = 0 THEN 1 ELSE 0]
                                      ELSE IF j = 1 THEN [k \in 0..1 |-> IF k = 0 THEN 0 ELSE 1]
                                      ELSE [k \in 0..1 |-> 0]]
        ELSE [j \in 0..2 |-> IF j = 0 THEN [k \in 0..1 |-> IF k = 0 THEN 0 - 1 ELSE 0]
                             ELSE IF j = 1 THEN [k \in 0..1 |-> IF k = 0 THEN 1 ELSE 0 - 2]
                             ELSE [k \in 0..1 |-> 1]]]
Simplices ==
    [s \in 0..1 |-> IF s = 0 THEN [j \in 0..2 |-> j] ELSE [j \in 0..2 |-> 3 - j]]
VertexValues == [v \in 0..3 |-> IF v = 0 THEN 10 ELSE IF v = 1 THEN 20 ELSE IF v = 2 THEN 40 ELSE 70]
QueryChoices == {[k \in 0..1 |-> 0], [k \in 0..1 |-> IF k = 0 THEN 1 ELSE 0],
                 [k \in 0..1 |-> IF k = 0 THEN 2 ELSE 1]}
IndexChoices == {0 - 1, 0, 1}

\* The chunk size of line 60, and smaller ones, which stand for the same code
\* with another literal and make a short query array span several chunks.
ChunkSizes == {1, 2, ChunkSize}

\* sum over k of transform[s, j, k] * delta[k], lines 25-27.
RECURSIVE RowTimes(_, _, _, _, _)
RowTimes(transform, s, j, delta, k) ==
    IF k = Ndim THEN 0
    ELSE transform[s][j][k] * delta[k] + RowTimes(transform, s, j, delta, k + 1)

\* sum over j of bary[j] * vertex_values[verts[j]], lines 35-38.
RECURSIVE WeightedSum(_, _, _, _)
WeightedSum(bary, verts, vertex_values, j) ==
    IF j = Ndim + 1 THEN 0
    ELSE bary[j] * vertex_values[verts[j]] + WeightedSum(bary, verts, vertex_values, j + 1)

\* The body of the loop of evaluate_chunk for index i (lines 15-39).
evaluate_point(transform, simplices, vertex_values, pts, indices, i) ==
    LET s == indices[i]
    IN  IF s < 0 THEN NaN
        ELSE LET offset == transform[s][Ndim]
                 delta == [k \in 0..(Ndim - 1) |-> pts[i][k] - offset[k]]
                 b == [j \in 0..(Ndim - 1) |-> RowTimes(transform, s, j, delta, 0)]
                 sum_b == b[0] + b[1]
                 bary == [j \in 0..Ndim |-> IF j < Ndim THEN b[j] ELSE 1 - sum_b]
             IN  Num(WeightedSum(bary, simplices[s], vertex_values, 0))

\* evaluate_chunk (lines 9-40): the values for the indices start .. end-1.
evaluate_chunk(transform, simplices, vertex_values, pts, indices, start, end) ==
    [o \in 0..(end - start - 1) |->
        evaluate_point(transform, simplices, vertex_values, pts, indices, start + o)]

\* A loop whose chunks begin one place late.
ChunkStartLate(i, chunk_size) == i * chunk_size + 1

\* start = i * chunk_size, line 64.
ChunkStart(i, chunk_size) == i * chunk_size

\* n_chunks, line 61.
NChunks(n_points, chunk_size) == (n_points + chunk_size - 1) \div chunk_size

\* Lines 58-62: the output array is allocated, not yet written.
call_fast_interpolate ==
    /\ fi_pc = "new"
    /\ fi_out' = [i \in 0..(Len(query_pts) - 1) |-> << "empty" >>]
    /\ fi_writes' = [i \in 0..(Len(query_pts) - 1) |-> 0]
    /\ fi_i' = 0
    /\ fi_pc' = "loop"
    /\ UNCHANGED << query_pts, simplex_indices, fi_chunk_size, others_fast >>

\* One round of the loop of lines 63-66; the decorator in force is plain
\* njit, so the rounds run in order.
fast_interpolate_chunk ==
    /\ fi_pc = "loop"
    /\ fi_i < NChunks(Len(query_pts), fi_chunk_size)
    /\ LET n_points == Len(query_pts)
           pts == [i \in 0..(n_points - 1) |-> query_pts[i + 1]]
           indices == [i \in 0..(n_points - 1) |-> simplex_indices[i + 1]]
           start == ChunkStart(fi_i, fi_chunk_size)
           end == Min2(start + fi_chunk_size, n_points)
           chunk == evaluate_chunk(Transform, Simplices, VertexValues, pts, indices,
                                   start, end)
       IN  /\ fi_out' = [i \in 0..(n_points - 1) |->
                            IF start <= i /\ i < end THEN chunk[i - start] ELSE fi_out[i]]
           /\ fi_writes' = [i \in 0..(n_points - 1) |->
                            IF start <= i /\ i < end THEN fi_writes[i] + 1 ELSE fi_writes[i]]
    /\ fi_i' = fi_i + 1
    /\ UNCHANGED << fi_pc, query_pts, simplex_indices, fi_chunk_size, others_fast >>

\* Line 67.
fast_interpolate_return ==
    /\ fi_pc = "loop"
    /\ fi_i = NChunks(Len(query_pts), fi_chunk_size)
    /\ fi_pc' = "done"
    /\ UNCHANGED << fi_i, fi_out, fi_writes, query_pts, simplex_indices, fi_chunk_size,
                    others_fast >>

InitFast ==
    /\ FreshOutside_fast
    /\ fi_pc = "new"
    /\ query_pts \in UNION {[1..n -> QueryChoices] : n \in 1..MaxPts}
    /\ simplex_indices \in [1..Len(query_pts) -> IndexChoices]
    /\ fi_chunk_size \in ChunkSizes
    /\ fi_i = 0
    /\ fi_out = << >>
    /\ fi_writes = << >>

NextFast ==
    \/ call_fast_interpolate
    \/ fast_interpolate_chunk
    \/ fast_interpolate_return

SpecFast == InitFast /\ [][NextFast]_vars

\* =========================================================================
\* The tile route: serve_tile_route (main.py 84-119), TileRendering.render_tile
\* and valid_zxy (gfs_render/tile_rendering.py 17-75, 83-84)
\* =========================================================================
\* One worker process serves tile requests one after the other. The two
\* interpolator keys are two hour offsets of one parameter: they share the
\* min/max entry. The interpolator caches and the min/max entry are those of
\* the single flight (local_cache, cache, minmax, cache_up).
MaxRequests == 3

\* (z, x, y) of the requests: two tiles, then x = 2^z, z < 0 and y < 0.
TileCoords == {<< 0, 0, 0 >>, << 1, 1, 0 >>, << 1, 2, 0 >>, << 0 - 1, 0, 0 >>,
               << 1, 0, 0 - 1 >>}
GribStates == {"ok", "missing", "nomessage", "corrupt", "sparse"}
TileSlug == << "temperature" >>

\* A validator that lets x = 2^z and y = 2^z through.
valid_zxy_inclusive(z, x, y) ==
    ~(z < 0 \/ ~(0 <= x /\ x <= 2^z /\ 0 <= y /\ y <= 2^z))

\* valid_zxy (tile_rendering.py 83-84).
valid_zxy(z, x, y) ==
    ~(z < 0 \/ ~(0 <= x /\ x < 2^z /\ 0 <= y /\ y < 2^z))

TileKeys == {<< k, c >> : k \in InterpKeys, c \in {d \in TileCoords : valid_zxy(d[1], d[2], d[3])}}

\* create_tile_cache_key (model_service.py 656-669).
create_tile_cache_key(k, c) == << k, c >>

\* What the interpolator of key k gives on the mesh of tile c
\* (get_or_build_tile_grid, model_service.py 118-143): the values of the
\* field over the tile, NaN outside the hull.
TileGrid(k, c) ==
    IF c[1] = 0 THEN << Num(MsgMinMax(k)[1]), Num(MsgMinMax(k)[2]) >>
    ELSE << Num(MsgMinMax(k)[2]), NaN >>

\* _blank_tile (tile_rendering.py 77-81).
BlankTile == << "PNG", << >> >>

\* render_tile, lines 51-72, given the interpolator: the grid is colorized
\* with the gmin and gmax the interpolator carries and encoded as PNG.
RenderPng(k, c, ip) ==
    LET grid_z == TileGrid(k, c)
    IN  IF \A i \in 1..Len(grid_z) : grid_z[i] = NaN THEN BlankTile
        ELSE << "PNG", colorize_grid(TileSlug, grid_z, ip[2], ip[3], IsNan(grid_z)) >>

\* compute (model_service.py 344-374) with the backend reachable: None when
\* no file resolves (346-347), when opening or decoding the file raises, when
\* no message is selected (355-356), or when the triangulation raises for
\* want of points (all caught at 372-374); otherwise the interpolator with
\* the merged min/max.
ComputeInterpolator(k) ==
    IF grib_state[k] = "ok"
    THEN LET mm == MergeMinMax(minmax, MsgMinMax(k))
         IN  << ok_builds[k] + 1, mm[1], mm[2] >>
    ELSE None

\* What the tile route leaves alone.
tile_rest == << file_ok, key_locks, lock_owner, pc, t_key, t_val, t_lock, t_mm, t_out,
               t_raced, n_faults, lost, t_op, deb_vars, mm_inputs, merge_vars, pt_vars,
               peers_tile >>

\* Lines 98-99 and 100-101: the request is rejected before anything is read.
serve_tile_reject(known, k, c) ==
    /\ tl_pc = "ready"
    /\ tl_n < MaxRequests
    /\ ~known \/ ~valid_zxy(c[1], c[2], c[3])
    /\ tl_req' = << known, k, c >>
    /\ tl_resp' = << "404", << IF ~known THEN "Unknown model."
                               ELSE "Invalid tile coordinates." >> >>
    /\ tl_ops' = {}
    /\ tl_cause' = "none"
    /\ tl_n' = tl_n + 1
    /\ UNCHANGED << tl_pc, grib_state, tl_tiles, tl_first, local_cache, cache, minmax,
                    ok_builds, cache_up, tile_rest >>

\* Lines 103-119 with render_tile and get_or_build_interpolator inside: the
\* tile cache, then the local and the shared interpolator cache, then the
\* build; the interpolator is published again by get_or_build_tile_grid
\* (set_interpolator, line 138), and the tile is cached for 15 minutes.
serve_tile_route(k, c) ==
    /\ tl_pc = "ready"
    /\ tl_n < MaxRequests
    /\ valid_zxy(c[1], c[2], c[3])
    /\ LET cache_key == create_tile_cache_key(k, c)
           tile_hit == cache_up /\ tl_tiles[cache_key] # None
           l1_hit == local_cache[k] # None
           raised == ~tile_hit /\ ~l1_hit /\ ~cache_up
           l2_hit == ~l1_hit /\ cache_up /\ cache[k] # None
           built == ~tile_hit /\ ~l1_hit /\ cache_up /\ cache[k] = None
           ip == IF l1_hit THEN local_cache[k]
                 ELSE IF l2_hit THEN cache[k]
                 ELSE IF built THEN ComputeInterpolator(k)
                 ELSE None
           data == IF ip = None THEN None ELSE RenderPng(k, c, ip)
       IN  /\ tl_req' = << TRUE, k, c >>
           /\ tl_ops' = {"tile_get"}
                        \cup (IF tile_hit THEN {} ELSE {"render", "interpolator_get"})
                        \cup (IF built THEN {"resolve"} ELSE {})
           /\ tl_cause' = IF built /\ ip = None THEN grib_state[k]
                          ELSE IF raised THEN "backend" ELSE "none"
           /\ tl_resp' = IF tile_hit THEN << "200", tl_tiles[cache_key] >>
                         ELSE IF raised THEN << "500", << "Internal Server Error" >> >>
                         ELSE IF data = None THEN << "404", << "No tile data found" >> >>
                         ELSE << "200", data >>
           /\ IF tile_hit \/ raised \/ ip = None
              THEN UNCHANGED << local_cache, cache, minmax, ok_builds, tl_tiles, tl_first >>
              ELSE /\ local_cache' = [local_cache EXCEPT ![k] = ip]
                   /\ cache' = IF cache_up THEN [cache EXCEPT ![k] = ip] ELSE cache
                   /\ minmax' = IF built THEN JsonDumps(<< ip[2], ip[3] >>) ELSE minmax
                   /\ ok_builds' = IF built THEN [ok_builds EXCEPT ![k] = @ + 1]
                                   ELSE ok_builds
                   /\ tl_tiles' = IF cache_up THEN [tl_tiles EXCEPT ![cache_key] = data]
                                  ELSE tl_tiles
                   /\ tl_first' = IF tl_first[cache_key] = None
                                  THEN [tl_first EXCEPT ![cache_key] = data]
                                  ELSE tl_first
    /\ tl_n' = tl_n + 1
    /\ UNCHANGED << tl_pc, grib_state, cache_up, tile_rest >>

\* backend_cache.set(cache_key, data, 15 * 60), line 115: the tiles expire.
tile_ttl_elapse ==
    /\ tl_pc = "ready"
    /\ \E tk \in TileKeys : tl_tiles[tk] # None
    /\ tl_tiles' = [tk \in TileKeys |-> None]
    /\ UNCHANGED << grib_state, tl_pc, tl_first, tl_req, tl_resp, tl_ops, tl_cause, tl_n,
                    local_cache, cache, minmax, ok_builds, cache_up, tile_rest >>

\* CACHE_TTL (caching/cache.py 3): the shared interpolators expire after an
\* hour, and with them the tiles; the min/max entry is set without expiry
\* (model_service.py 1021) and the local cache entries are set without one
\* (line 77).
interpolator_ttl_elapse ==
    /\ tl_pc = "ready"
    /\ \E k \in InterpKeys : cache[k] # None
    /\ cache' = [k \in InterpKeys |-> None]
    /\ tl_tiles' = [tk \in TileKeys |-> None]
    /\ UNCHANGED << grib_state, tl_pc, tl_first, tl_req, tl_resp, tl_ops, tl_cause, tl_n,
                    local_cache, minmax, ok_builds, cache_up, tile_rest >>

\* The worker process is restarted, or another worker of the deployment takes
\* the next request: its LocalStorage is empty.
worker_restart ==
    /\ tl_pc = "ready"
    /\ \E k \in InterpKeys : local_cache[k] # None
    /\ local_cache' = [k \in InterpKeys |-> None]
    /\ UNCHANGED << grib_state, tl_pc, tl_tiles, tl_first, tl_req, tl_resp, tl_ops,
                    tl_cause, tl_n, cache, minmax, ok_builds, cache_up,
                    tile_rest >>

\* The shared backend goes away and comes back.
backend_toggle ==
    /\ tl_pc = "ready"
    /\ cache_up' = ~cache_up
    /\ UNCHANGED << grib_state, tl_pc, tl_tiles, tl_first, tl_req, tl_resp, tl_ops,
                    tl_cause, tl_n, local_cache, cache, minmax, ok_builds,
                    tile_rest >>

InitTile ==
    /\ FreshOutside_tile
    /\ tl_pc = "ready"
    /\ grib_state \in {g \in [InterpKeys -> GribStates] : g["k2"] = "ok"}
    /\ tl_tiles = [tk \in TileKeys |-> None]
    /\ tl_first = [tk \in TileKeys |-> None]
    /\ tl_req = None
    /\ tl_resp = None
    /\ tl_ops = {}
    /\ tl_cause = "none"
    /\ tl_n = 0

NextTile ==
    \/ \E known \in BOOLEAN, k \in InterpKeys, c \in TileCoords :
          serve_tile_reject(known, k, c)
    \/ \E k \in InterpKeys, c \in TileCoords : serve_tile_route(k, c)
    \/ tile_ttl_elapse
    \/ interpolator_ttl_elapse
    \/ worker_restart
    \/ backend_toggle

SpecTile == InitTile /\ [][NextTile]_vars

\* =========================================================================
\* The tile key and the tile cache (create_tile_cache_key, model_service.py
\* lines 656-669; serve_tile_route, main.py lines 84-119), with the level,
\* typeOfLevel and stepType of the request
\* =========================================================================

\* The one model, parameter, hour offset and tile the requests of this part
\* ask for; they differ in level, typeOfLevel and stepType only.
TkInterp == CHOOSE k \in InterpKeys : TRUE
TkCoord == << 0, 0, 0 >>

\* The query parameters of the route (main.py 92-94); {} is None.
TkLevels == {{}, {0}, {2}}
TkTypes == {{}, {"surface"}, {"heightAboveGround"}}
TkSteps == {{}, {"instant"}}

\* The files the tiles are rendered from.
TkFiles ==
    { << << ParamName, "surface", 0, "instant" >>,
         << ParamName, "heightAboveGround", 2, "instant" >> >>,
      << << ParamName, "heightAboveGround", 2, "instant" >>,
         << ParamName, "heightAboveGround", 0, "instant" >> >> }

\* How an f-string prints an optional int and an optional str.
FormatInt(n) == IF n = 0 THEN "0" ELSE IF n = 1 THEN "1" ELSE IF n = 2 THEN "2" ELSE "n"
FormatOptInt(v) == IF v = {} THEN "None" ELSE FormatInt(CHOOSE n \in v : TRUE)
TheStr(v) == CHOOSE s \in v : TRUE

\* create_tile_cache_key, lines 666-669: after the model, parameter, time
\* and tile come the level (the requested one only when a typeOfLevel is
\* given, else 0), the typeOfLevel or 'surface', the stepType or 'instant'.
create_tile_cache_key_full(k, c, user_tof, level_arg, step_type) ==
    create_tile_cache_key(k, c) \o
        << IF user_tof # {} THEN FormatOptInt(level_arg) ELSE "0",
           IF user_tof # {} THEN TheStr(user_tof) ELSE "surface",
           IF step_type # {} THEN TheStr(step_type) ELSE "instant" >>

TkKeys ==
    { create_tile_cache_key_full(TkInterp, TkCoord, t, l, s) :
          l \in TkLevels, t \in TkTypes, s \in TkSteps }

\* render_tile (tile_rendering.py 51-72) for the request: the tile drawn from
\* the message the selector gives for the level, typeOfLevel and stepType
\* (compute, model_service.py 353-356), None when it gives none.
TkRenderTile(level, type_of_level, step_type) ==
    LET g == select_grib_message(tk_file, ParamName, level, type_of_level,
                                 step_type, tk_raises)[1]
    IN  IF g = None THEN None ELSE << "PNG", g >>

TkCached(key) == IF key \in DOMAIN tk_store THEN tk_store[key] ELSE None

\* serve_tile_route, main.py 103-119, for valid coordinates: the cache is
\* read under the key and a cached tile is served as it is; otherwise the
\* tile is rendered, a missing one is a 404, and a rendered one is stored
\* under the key.  Reading or writing an unreachable backend is logged and
\* the route carries on.  Each stored tile remembers the request that
\* rendered it.
tk_serve_tile_route(level, typeOfLevel, stepType) ==
    /\ tk_n < MaxRequests
    /\ LET cache_key == create_tile_cache_key_full(TkInterp, TkCoord, typeOfLevel,
                                                   level, stepType)
           cached_tile == IF tk_up THEN TkCached(cache_key) ELSE None
           data == TkRenderTile(level, typeOfLevel, stepType)
           req == << level, typeOfLevel, stepType >>
       IN  /\ tk_req' = req
           /\ IF cached_tile # None
              THEN /\ tk_resp' = << "200", cached_tile[1], cached_tile[2] >>
                   /\ UNCHANGED tk_store
              ELSE IF data = None
              THEN /\ tk_resp' = << "404" >>
                   /\ UNCHANGED tk_store
              ELSE /\ tk_resp' = << "200", data, req >>
                   /\ tk_store' = IF tk_up
                                  THEN [q \in DOMAIN tk_store \cup {cache_key} |->
                                          IF q = cache_key THEN << data, req >>
                                          ELSE tk_store[q]]
                                  ELSE tk_store
    /\ tk_pc' = "done"
    /\ tk_n' = tk_n + 1
    /\ UNCHANGED << tk_file, tk_raises, tk_up, others_tkey >>

\* The 15 minutes of a stored tile run out (main.py 115).
tk_tile_ttl_elapse(key) ==
    /\ key \in DOMAIN tk_store
    /\ tk_store' = [q \in DOMAIN tk_store \ {key} |-> tk_store[q]]
    /\ UNCHANGED << tk_pc, tk_file, tk_raises, tk_up, tk_req, tk_resp, tk_n, others_tkey >>

\* The backend becomes unreachable or reachable again.
tk_backend_toggle ==
    /\ tk_n < MaxRequests
    /\ tk_up' = ~tk_up
    /\ UNCHANGED << tk_pc, tk_file, tk_raises, tk_store, tk_req, tk_resp, tk_n, others_tkey >>

InitTkey ==
    /\ FreshOutside_tkey
    /\ tk_pc = "idle"
    /\ tk_file \in TkFiles
    /\ tk_raises \in BOOLEAN
    /\ tk_up = TRUE
    /\ tk_store = << >>
    /\ tk_req = None
    /\ tk_resp = None
    /\ tk_n = 0

NextTkey ==
    \/ \E l \in TkLevels, t \in TkTypes, s \in TkSteps : tk_serve_tile_route(l, t, s)
    \/ \E key \in TkKeys : tk_tile_ttl_elapse(key)
    \/ tk_backend_toggle

SpecTkey == InitTkey /\ [][NextTkey]_vars

\* =========================================================================
\* The value dictionary of one offset under concurrent callers
\* (_get_or_build_value_cache_dictionary, model_service.py lines 895-937)
\* =========================================================================

\* The parameters a caller may ask for; "nope" has no entry in the parameter
\* map of the model (lines 917-920).
GdParams == {"tmp", "rh", "nope"}
GdKnown == {"tmp", "rh"}
GdRequests == (SUBSET GdParams) \ {{}}

\* The dictionary the backend holds under the key of the offset, {} when it
\* holds none ('self._cache_get(cache_key) or {}', line 907).
GdCached == IF gd_store = << >> THEN {} ELSE gd_store[1]

\* get_all_missing_key_strings (lines 689-712): the asked keys the
\* dictionary lacks.
get_all_missing_key_strings(search_parameters, values) == search_parameters \ values

\* The callers between their read and their write.
GdInside == {t \in Threads : gd_pc[t] = "built"}

\* Lines 906-934: the dictionary is read from the backend, nothing is done
\* when no asked key is missing or no GRIB file resolves, otherwise every
\* missing key with a parameter name gets its entry in the caller's copy.
\* No lock is taken.
gd_read_and_populate(t, search_parameters) ==
    /\ gd_pc[t] \in {"idle", "done", "raised"}
    /\ gd_n < MaxRequests
    /\ gd_up
    /\ LET values == GdCached
           param_keys == get_all_missing_key_strings(search_parameters, values)
       IN  IF param_keys = {} \/ ~gd_grib
           THEN /\ gd_pc' = [gd_pc EXCEPT ![t] = "done"]
                /\ gd_values' = [gd_values EXCEPT ![t] = values]
                /\ UNCHANGED gd_dup
           ELSE /\ gd_pc' = [gd_pc EXCEPT ![t] = "built"]
                /\ gd_values' = [gd_values EXCEPT ![t] = values \cup (param_keys \cap GdKnown)]
                /\ gd_dup' = gd_dup \cup
                      {k \in param_keys \cap GdKnown :
                          \E u \in GdInside \ {t} : k \in gd_values[u] \ GdCached}
    /\ gd_params' = [gd_params EXCEPT ![t] = search_parameters]
    /\ gd_n' = gd_n + 1
    /\ UNCHANGED << gd_store, gd_up, gd_grib, gd_lost, others_dict >>

\* Line 907 with the backend unreachable: cache.get raises out of
\* _cache_get (line 1029) and out of the call.
gd_read_raise(t, search_parameters) ==
    /\ gd_pc[t] \in {"idle", "done", "raised"}
    /\ gd_n < MaxRequests
    /\ ~gd_up
    /\ gd_pc' = [gd_pc EXCEPT ![t] = "raised"]
    /\ gd_params' = [gd_params EXCEPT ![t] = search_parameters]
    /\ gd_n' = gd_n + 1
    /\ UNCHANGED << gd_values, gd_store, gd_up, gd_grib, gd_lost, gd_dup, others_dict >>

\* Lines 935-937: the caller's copy replaces the dictionary of the backend
\* (a failing write is logged, _cache_set lines 1037-1041) and is returned.
gd_write_back(t) ==
    /\ gd_pc[t] = "built"
    /\ gd_pc' = [gd_pc EXCEPT ![t] = "done"]
    /\ IF gd_up
       THEN /\ gd_store' = << gd_values[t] >>
            /\ gd_lost' = gd_lost \cup (GdCached \ gd_values[t])
       ELSE UNCHANGED << gd_store, gd_lost >>
    /\ UNCHANGED << gd_params, gd_values, gd_up, gd_grib, gd_dup, gd_n, others_dict >>

\* The backend becomes unreachable or reachable again.
gd_backend_toggle ==
    /\ gd_n < MaxRequests
    /\ gd_up' = ~gd_up
    /\ UNCHANGED << gd_pc, gd_params, gd_values, gd_store, gd_grib, gd_lost, gd_dup,
                    gd_n, others_dict >>

InitDict ==
    /\ FreshOutside_dict
    /\ gd_pc = [t \in Threads |-> "idle"]
    /\ gd_params = [t \in Threads |-> {}]
    /\ gd_values = [t \in Threads |-> {}]
    /\ gd_store \in {<< >>, << {"tmp"} >>}
    /\ gd_up = TRUE
    /\ gd_grib \in BOOLEAN
    /\ gd_lost = {}
    /\ gd_dup = {}
    /\ gd_n = 0

NextDict ==
    \/ \E t \in Threads, sp \in GdRequests : gd_read_and_populate(t, sp)
    \/ \E t \in Threads, sp \in GdRequests : gd_read_raise(t, sp)
    \/ \E t \in Threads : gd_write_back(t)
    \/ gd_backend_toggle

SpecDict == InitDict /\ [][NextDict]_vars

\* =========================================================================
\* The downloader (src/downloaders/gfs-hourly-downloader.py): one day's 00
\* run, fetched by successive runs of the script while NOAA publishes it
\* =========================================================================

\* The runs of the script followed.
MaxRuns == 2

\* FILE_NAME_PATTERNS, lines 28-32.
FILE_NAME_PATTERNS == {"gfswave", "pgrb2"}

\* The forecast hours followed here, out of the 0..384 of the 00 run: two of
\* the first day, one between f024 and f122, the last one.
DlHours == {0, 23, 60, 384}

\* FULL_RANGE, SHORT_RANGE and STEP_RANGE (lines 47-49) on those hours.
FULL_RANGE == {h \in DlHours : h >= 0 /\ h < 385}
SHORT_RANGE == {h \in DlHours : h >= 0 /\ h < 24}
STEP_RANGE == {h \in DlHours : h >= 123 /\ h < 387 /\ (h - 123) % 3 = 0}

\* A file is << pattern, forecast hour >>.  The files of the complete run.
DlRunFiles == {<< p, h >> : p \in FILE_NAME_PATTERNS, h \in FULL_RANGE}

\* find_local_fvalues, lines 66-83: the forecast hours of the files of the
\* folder, whatever their pattern.
find_local_fvalues(files) == {f[2] : f \in files}

\* is_00_coverage_complete, lines 197-218, on the coverage of hour 00
\* (<< >> when the map has no entry for the date).
is_00_coverage_complete(downloaded_map) ==
    IF downloaded_map = << >> THEN FALSE
    ELSE LET fvals == downloaded_map[1]
         IN  IF ~(SHORT_RANGE \subseteq fvals) THEN FALSE
             ELSE IF ~(STEP_RANGE \subseteq fvals) THEN FALSE
             ELSE TRUE

\* NOAA publishes the next file of a pattern.
dl_publish(p, h) ==
    /\ << p, h >> \in DlRunFiles \ dl_s3
    /\ \A g \in FULL_RANGE : g < h => << p, g >> \in dl_s3
    /\ dl_s3' = dl_s3 \cup {<< p, h >>}
    /\ UNCHANGED << dl_pc, dl_local, dl_map, dl_pulled, dl_no_cleanup, dl_old, dl_runs,
                    others_dl >>

\* A run of the script, lines 300-318: fetch_sparse_data, whose call of
\* download_sparse_files for hour 00 (lines 89-165) lists the run on S3,
\* skips every matched key whose forecast hour already has a local file or
\* whose file exists, downloads the others (a failed download is printed),
\* and records the local and the fetched hours as the coverage.  With
\* nothing listed the coverage is not recorded.  The 06, 12 and 18 runs
\* report new data or not.
dl_fetch(no_cleanup, failed, other_new) ==
    /\ dl_pc \in {"idle", "finished"}
    /\ dl_runs < MaxRuns
    /\ LET existing_fvals == find_local_fvalues(dl_local)
           matched_keys == {f \in dl_s3 : f[2] \in FULL_RANGE}
           to_fetch == {f \in matched_keys : f[2] \notin existing_fvals /\ f \notin dl_local}
           fetched == to_fetch \ failed
           downloaded_any == (matched_keys \ to_fetch) # {} \/ fetched # {}
       IN  /\ failed \subseteq to_fetch
           /\ dl_local' = dl_local \cup fetched
           /\ dl_map' = IF dl_s3 = {} THEN << >>
                        ELSE << existing_fvals \cup find_local_fvalues(fetched) >>
           /\ dl_pulled' = (downloaded_any \/ other_new)
    /\ dl_no_cleanup' = no_cleanup
    /\ dl_pc' = "fetched"
    /\ dl_runs' = dl_runs + 1
    /\ UNCHANGED << dl_s3, dl_old, others_dl >>

\* Lines 319-330, the guard passed: cleanup_old_data (lines 247-293) deletes
\* the date folders beyond MAX_DAYS and prunes the older days.
dl_cleanup_old_data ==
    /\ dl_pc = "fetched"
    /\ ~dl_no_cleanup
    /\ dl_pulled /\ is_00_coverage_complete(dl_map)
    /\ dl_old' = "pruned"
    /\ dl_pc' = "finished"
    /\ UNCHANGED << dl_s3, dl_local, dl_map, dl_pulled, dl_no_cleanup, dl_runs, others_dl >>

\* Lines 319-330, the guard not passed or --no-cleanup given.
dl_skip_cleanup ==
    /\ dl_pc = "fetched"
    /\ dl_no_cleanup \/ ~(dl_pulled /\ is_00_coverage_complete(dl_map))
    /\ dl_pc' = "finished"
    /\ UNCHANGED << dl_s3, dl_local, dl_map, dl_pulled, dl_no_cleanup, dl_old, dl_runs,
                    others_dl >>

InitDl ==
    /\ FreshOutside_dl
    /\ DlFresh

NextDl ==
    \/ \E p \in FILE_NAME_PATTERNS, h \in FULL_RANGE : dl_publish(p, h)
    \/ \E nc \in BOOLEAN, failed \in {{}} \cup {{f} : f \in DlRunFiles}, o \in BOOLEAN :
          dl_fetch(nc, failed, o)
    \/ dl_cleanup_old_data
    \/ dl_skip_cleanup

SpecDl == InitDl /\ [][NextDl]_vars

\* =========================================================================
\* LocalStorage (caching/local_cache.py): the store, its lock and its
\* cleaner thread, under concurrent callers
\* =========================================================================

\* What the operations of the store leave alone.
ls_rest == << tt_l2, tt_timer, tt_pub, tt_resp, others_ls >>

\* The expire arguments of set: the default 0 and a positive one.
LsExpires == {0, 900}

\* A caller starts get, set or delete (lines 15, 21, 32): it goes for the
\* lock.
ls_call(t, op, k, expire) ==
    /\ t \in Threads
    /\ ls_pc[t] = "idle"
    /\ ls_pc' = [ls_pc EXCEPT ![t] = "acq"]
    /\ ls_op' = [ls_op EXCEPT ![t] = << op, k, expire >>]
    /\ ls_ret' = [ls_ret EXCEPT ![t] = "none"]
    /\ UNCHANGED << ls_data, ls_time, ls_lock, ls_rest >>

\* The cleaner thread wakes from its sleep of CACHE_TTL (lines 40-43) and
\* goes for the lock.
ls_sweep_wake ==
    /\ ls_pc[Sweeper] = "idle"
    /\ ls_pc' = [ls_pc EXCEPT ![Sweeper] = "acq"]
    /\ ls_op' = [ls_op EXCEPT ![Sweeper] = << "sweep" >>]
    /\ UNCHANGED << ls_data, ls_time, ls_lock, ls_ret, ls_rest >>

\* 'with self._lock:' (lines 16, 22, 33, 44): the lock, a threading.Lock,
\* is taken when it is free, whoever asks; it is not reentrant.  A thread
\* that asks inside delete, called from get or from the sweep, would go on
\* with the body of delete.
ls_acquire(t) ==
    /\ ls_pc[t] \in {"acq", "nested"}
    /\ ls_lock = {}
    /\ ls_lock' = {t}
    /\ ls_pc' = [ls_pc EXCEPT ![t] = IF ls_pc[t] = "acq" THEN "in" ELSE "nested_in"]
    /\ UNCHANGED << ls_data, ls_time, ls_op, ls_ret, ls_rest >>

\* set, lines 15-19, under the lock: the value is stored, and timestamped
\* only when expire is positive.
ls_set(t) ==
    /\ ls_pc[t] = "in" /\ ls_op[t][1] = "set"
    /\ ls_data' = [ls_data EXCEPT ![ls_op[t][2]] = TRUE]
    /\ ls_time' = IF ls_op[t][3] > 0 THEN [ls_time EXCEPT ![ls_op[t][2]] = "fresh"]
                  ELSE ls_time
    /\ ls_lock' = {}
    /\ ls_pc' = [ls_pc EXCEPT ![t] = "idle"]
    /\ ls_ret' = [ls_ret EXCEPT ![t] = "ok"]
    /\ UNCHANGED << ls_op, ls_rest >>

\* get, lines 21-30, under the lock: an entry whose timestamp is older than
\* CACHE_TTL makes get call self.delete(key) (line 27) with the lock held;
\* any other entry is returned, a missing one is None.
ls_get(t) ==
    /\ ls_pc[t] = "in" /\ ls_op[t][1] = "get"
    /\ LET key == ls_op[t][2]
       IN  IF ls_data[key] /\ ls_time[key] = "old"
           THEN /\ ls_pc' = [ls_pc EXCEPT ![t] = "nested"]
                /\ UNCHANGED << ls_lock, ls_ret >>
           ELSE /\ ls_pc' = [ls_pc EXCEPT ![t] = "idle"]
                /\ ls_lock' = {}
                /\ ls_ret' = [ls_ret EXCEPT ![t] = IF ls_data[key] THEN "value" ELSE "absent"]
    /\ UNCHANGED << ls_data, ls_time, ls_op, ls_rest >>

\* delete, lines 32-37, called by a client, under the lock.
ls_delete(t) ==
    /\ ls_pc[t] = "in" /\ ls_op[t][1] = "delete"
    /\ ls_data' = [ls_data EXCEPT ![ls_op[t][2]] = FALSE]
    /\ ls_time' = [ls_time EXCEPT ![ls_op[t][2]] = "none"]
    /\ ls_lock' = {}
    /\ ls_pc' = [ls_pc EXCEPT ![t] = "idle"]
    /\ ls_ret' = [ls_ret EXCEPT ![t] = "ok"]
    /\ UNCHANGED << ls_op, ls_rest >>

\* The sweep, lines 44-51, under the lock: the keys with a timestamp older
\* than CACHE_TTL are collected; with none the lock is released and the
\* thread sleeps again, otherwise self.delete is called on the first of
\* them with the lock held (line 51 stands inside the with block).
ls_sweep ==
    /\ ls_pc[Sweeper] = "in"
    /\ LET keys_to_delete == {k \in InterpKeys : ls_time[k] = "old"}
       IN  IF keys_to_delete = {}
           THEN /\ ls_pc' = [ls_pc EXCEPT ![Sweeper] = "idle"]
                /\ ls_lock' = {}
           ELSE /\ ls_pc' = [ls_pc EXCEPT ![Sweeper] = "nested"]
                /\ UNCHANGED ls_lock
    /\ UNCHANGED << ls_data, ls_time, ls_op, ls_ret, ls_rest >>

\* More than CACHE_TTL passes since the entry of k was timestamped.
ls_time_passes(k) ==
    /\ ls_time[k] = "fresh"
    /\ ls_time' = [ls_time EXCEPT ![k] = "old"]
    /\ UNCHANGED << ls_data, ls_lock, ls_pc, ls_op, ls_ret, ls_rest >>

InitLocal ==
    /\ FreshOutside_ls
    /\ LsFresh

NextLocal ==
    \/ \E t \in Threads, op \in {"get", "set", "delete"}, k \in InterpKeys, e \in LsExpires :
          ls_call(t, op, k, e)
    \/ ls_sweep_wake
    \/ \E t \in LsThreads : ls_acquire(t)
    \/ \E t \in Threads : ls_set(t)
    \/ \E t \in Threads : ls_get(t)
    \/ \E t \in Threads : ls_delete(t)
    \/ ls_sweep
    \/ \E k \in InterpKeys : ls_time_passes(k)

SpecLocal == InitLocal /\ [][NextLocal]_vars

\* =========================================================================
\* The two tiers of InterpolatorCachingService over time (model_service.py
\* lines 52-87): LocalStorage in front of the shared backend
\* =========================================================================

\* The store operations as the caching service uses them, each under the
\* lock from start to end: set without expire (lines 59, 77) and get.  No
\* entry of this store is ever timestamped.
LocalSetNoExpire(k) == ls_data' = [ls_data EXCEPT ![k] = TRUE]
LocalGet(k) == ls_data[k] /\ ls_time[k] # "old"

\* set_interpolator, lines 75-87: the local tier takes the value at once,
\* without expire; the timer of the key is cancelled and started anew.
tt_set_interpolator(k) ==
    /\ LocalSetNoExpire(k)
    /\ tt_timer' = [tt_timer EXCEPT ![k] = TRUE]
    /\ tt_pub' = [tt_pub EXCEPT ![k] = "fresh"]
    /\ UNCHANGED << ls_time, ls_lock, ls_pc, ls_op, ls_ret, tt_l2, tt_resp, others_ls >>

\* _debounce_callback, lines 67-73: the value goes to the shared backend
\* with expire=CACHE_TTL (line 65).
tt_debounce_callback(k) ==
    /\ tt_timer[k]
    /\ tt_timer' = [tt_timer EXCEPT ![k] = FALSE]
    /\ tt_l2' = [tt_l2 EXCEPT ![k] = TRUE]
    /\ UNCHANGED << ls_data, ls_time, ls_lock, ls_pc, ls_op, ls_ret, tt_pub, tt_resp,
                    others_ls >>

\* get_interpolator, lines 52-61: the local tier first, then the shared
\* backend, whose value is copied to the local tier without expire.  The
\* answer is kept with the age of the publication at that time.
tt_get_interpolator(k) ==
    /\ IF LocalGet(k)
       THEN /\ tt_resp' = << k, "value", tt_pub[k] >>
            /\ UNCHANGED ls_data
       ELSE IF tt_l2[k]
       THEN /\ tt_resp' = << k, "value", tt_pub[k] >>
            /\ LocalSetNoExpire(k)
       ELSE /\ tt_resp' = << k, "absent", tt_pub[k] >>
            /\ UNCHANGED ls_data
    /\ UNCHANGED << ls_time, ls_lock, ls_pc, ls_op, ls_ret, tt_l2, tt_timer, tt_pub,
                    others_ls >>

\* More than CACHE_TTL passes since k was last published, the debounced
\* write long done: the shared backend drops its entry (ex=expire,
\* redis_cache.py line 17), and a timestamp of the local tier, had it one,
\* is older than CACHE_TTL.
tt_ttl_elapse(k) ==
    /\ tt_pub[k] = "fresh"
    /\ ~tt_timer[k]
    /\ tt_pub' = [tt_pub EXCEPT ![k] = "old"]
    /\ tt_l2' = [tt_l2 EXCEPT ![k] = FALSE]
    /\ ls_time' = [ls_time EXCEPT ![k] = IF @ = "fresh" THEN "old" ELSE @]
    /\ UNCHANGED << ls_data, ls_lock, ls_pc, ls_op, ls_ret, tt_timer, tt_resp, others_ls >>

InitTtl ==
    /\ FreshOutside_ls
    /\ LsFresh

NextTtl ==
    \/ \E k \in InterpKeys : tt_set_interpolator(k)
    \/ \E k \in InterpKeys : tt_debounce_callback(k)
    \/ \E k \in InterpKeys : tt_get_interpolator(k)
    \/ \E k \in InterpKeys : tt_ttl_elapse(k)

SpecTtl == InitTtl /\ [][NextTtl]_vars

\* =========================================================================
\* The longitude of a point request (interpolate_value and _wrap_lon_0_360,
\* model_service.py lines 147-160), in whole degrees
\* =========================================================================

\* The target longitudes go from -MaxLon to MaxLon.
MaxLon == 400
TargetLons == (0 - MaxLon)..MaxLon

\* _wrap_lon_0_360, lines 159-160.
wrap_lon_0_360(lon) == IF lon < 0 THEN lon + 360 ELSE lon

\* interpolate_value, lines 147-157: the longitude handed to
\* find_nearest_grid_indices and bilinear_from_indices.
call_interpolate_value ==
    /\ wr_pc = "new"
    /\ wr_out' = wrap_lon_0_360(wr_lon)
    /\ wr_pc' = "done"
    /\ UNCHANGED << wr_lon, others_wrap >>

InitWrap ==
    /\ FreshOutside_wrap
    /\ wr_pc = "new"
    /\ wr_lon \in TargetLons
    /\ wr_out = 0

NextWrap == call_interpolate_value

SpecWrap == InitWrap /\ [][NextWrap]_vars

\* =========================================================================
\* The forecast stream (forecast_streaming_route, main.py lines 176-238):
\* the worker thread, the event loop and the response generator
\* =========================================================================

\* The handles of the event loop, run in the order in which they were
\* scheduled.
HCallback(k) == << "callback", k >>
HPut(k) == << "put", k >>
HSetState == << "set_state" >>
HWake == << "wake" >>
HTimeout == << "timeout" >>
HExpired == << "expired" >>

\* The lines of the response.
ProgressLine(k, n) == << "progress", k, n >>
TimeseriesLine == << "timeseries" >>

StScheduled(h) == \E i \in 1..Len(st_ready) : st_ready[i] = h

\* The handles that remain when a wait of the generator is over: its timer
\* and its pending wake-ups go with it.
StOtherHandles(ready) ==
    SelectSeq(ready, LAMBDA h : h[1] \in {"callback", "put", "set_state"})

\* stream_forecast, lines 225-236, from a test of its while condition to the
\* point where it waits or ends: while the future is not done or the queue
\* is not empty it takes a message and yields it, waiting in
\* progress_queue.get() when the queue is empty; otherwise it awaits the
\* future and yields the timeseries.  The result is << queue, lines, state >>.
RECURSIVE stream_forecast(_, _, _)
stream_forecast(queue, done, out) ==
    IF ~done \/ queue # << >>
    THEN IF queue # << >>
         THEN stream_forecast(Tail(queue), done,
                              Append(out, ProgressLine(Head(queue), st_n)))
         ELSE << queue, out, "getting" >>
    ELSE << queue, Append(out, TimeseriesLine), "closed" >>

\* The route, lines 177-238, for a request whose timeseries has n offsets:
\* the computation goes to an executor thread (line 208) and the response
\* generator starts, finds the queue empty and waits.
call_forecast_stream(n) ==
    /\ st_gen = "none"
    /\ st_n' = n
    /\ st_thread' = "running"
    /\ st_gen' = "getting"
    /\ UNCHANGED << st_k, st_ready, st_queue, st_done, st_out, others_strm >>

\* progress_callback, lines 200-203, called by the worker thread when the
\* next offset is complete (model_service.py 850-853):
\* run_coroutine_threadsafe schedules a handle on the loop that will create
\* the task of progress_queue.put.
st_progress_callback ==
    /\ st_thread = "running"
    /\ st_k < st_n
    /\ st_k' = st_k + 1
    /\ st_ready' = Append(st_ready, HCallback(st_k + 1))
    /\ UNCHANGED << st_n, st_thread, st_queue, st_done, st_gen, st_out, others_strm >>

\* get_point_forecast_timeseries returns in the worker thread: the executor
\* future schedules the handle that completes timeseries_future.
st_thread_returns ==
    /\ st_thread = "running"
    /\ st_k = st_n
    /\ st_thread' = "returned"
    /\ st_ready' = Append(st_ready, HSetState)
    /\ UNCHANGED << st_n, st_k, st_queue, st_done, st_gen, st_out, others_strm >>

\* The second of wait_for(..., timeout=1), line 229, is over while the
\* generator waits.
st_timer_due ==
    /\ st_gen = "getting"
    /\ ~StScheduled(HTimeout)
    /\ st_ready' = Append(st_ready, HTimeout)
    /\ UNCHANGED << st_n, st_k, st_thread, st_queue, st_done, st_gen, st_out, others_strm >>

\* The loop runs the handle of run_coroutine_threadsafe: the task of
\* progress_queue.put(message) is created, its first step scheduled.
st_run_callback ==
    /\ st_ready # << >> /\ Head(st_ready)[1] = "callback"
    /\ st_ready' = Append(Tail(st_ready), HPut(Head(st_ready)[2]))
    /\ UNCHANGED << st_n, st_k, st_thread, st_queue, st_done, st_gen, st_out, others_strm >>

\* The loop runs the put: the message enters the queue and a generator
\* waiting in get is scheduled to wake.
st_run_put ==
    /\ st_ready # << >> /\ Head(st_ready)[1] = "put"
    /\ st_queue' = Append(st_queue, Head(st_ready)[2])
    /\ st_ready' = IF st_gen = "getting" /\ ~StScheduled(HWake)
                   THEN Append(Tail(st_ready), HWake)
                   ELSE Tail(st_ready)
    /\ UNCHANGED << st_n, st_k, st_thread, st_done, st_gen, st_out, others_strm >>

\* The loop completes timeseries_future.
st_run_set_state ==
    /\ st_ready # << >> /\ Head(st_ready)[1] = "set_state"
    /\ st_done' = TRUE
    /\ st_ready' = Tail(st_ready)
    /\ UNCHANGED << st_n, st_k, st_thread, st_queue, st_gen, st_out, others_strm >>

\* The loop wakes the generator out of get (lines 229-230): it yields the
\* message and goes on with its while loop.
st_run_wake ==
    /\ st_ready # << >> /\ Head(st_ready)[1] = "wake"
    /\ IF st_gen = "getting" /\ st_queue # << >>
       THEN LET r == stream_forecast(st_queue, st_done, st_out)
            IN  /\ st_queue' = r[1] /\ st_out' = r[2] /\ st_gen' = r[3]
                /\ st_ready' = StOtherHandles(Tail(st_ready))
       ELSE /\ st_ready' = Tail(st_ready)
            /\ UNCHANGED << st_queue, st_out, st_gen >>
    /\ UNCHANGED << st_n, st_k, st_thread, st_done, others_strm >>

\* The loop runs the timeout of wait_for (line 229): the waiting generator
\* is cancelled out of get, which schedules its next step.
st_run_timeout ==
    /\ st_ready # << >> /\ Head(st_ready)[1] = "timeout"
    /\ st_ready' = IF st_gen = "getting" /\ ~StScheduled(HExpired)
                   THEN Append(Tail(st_ready), HExpired)
                   ELSE Tail(st_ready)
    /\ UNCHANGED << st_n, st_k, st_thread, st_queue, st_done, st_gen, st_out, others_strm >>

\* The loop resumes the generator with the TimeoutError (lines 231-233): it
\* yields the keep-alive line and goes on with its while loop.
st_run_expired ==
    /\ st_ready # << >> /\ Head(st_ready)[1] = "expired"
    /\ IF st_gen = "getting"
       THEN LET r == stream_forecast(st_queue, st_done, st_out)
            IN  /\ st_queue' = r[1] /\ st_out' = r[2] /\ st_gen' = r[3]
                /\ st_ready' = StOtherHandles(Tail(st_ready))
       ELSE /\ st_ready' = Tail(st_ready)
            /\ UNCHANGED << st_queue, st_out, st_gen >>
    /\ UNCHANGED << st_n, st_k, st_thread, st_done, others_strm >>

InitStrm ==
    /\ FreshOutside_strm
    /\ StrmFresh

NextStrm ==
    \/ \E n \in 1..(MaxDays + 1) : call_forecast_stream(n)
    \/ st_progress_callback
    \/ st_thread_returns
    \/ st_timer_due
    \/ st_run_callback
    \/ st_run_put
    \/ st_run_set_state
    \/ st_run_wake
    \/ st_run_timeout
    \/ st_run_expired

SpecStrm == InitStrm /\ [][NextStrm]_vars

\* =========================================================================
\* The parameter map (build_param_map_for_offset, lines 283-297) under
\* _get_or_compute (lines 1043-1057)
\* =========================================================================

\* What get_grib_file(model, 0) finds: no file, a file pygrib cannot read
\* (truncated by the downloader), or a readable file with one or two names.
PmFiles == {"none", "bad", "one", "two"}

\* The names of the messages of a readable file.
PmNames(file) ==
    IF file = "one" THEN {"Temperature"}
    ELSE IF file = "two" THEN {"Temperature", "Relative humidity"}
    ELSE {}

\* Line 292: the slug of a name: "/" to "_", characters other than word
\* characters, blanks, "_" and "-" dropped, lower case, blanks to "-".
PmSlug(name) ==
    IF name = "Temperature" THEN "temperature"
    ELSE IF name = "Relative humidity" THEN "relative-humidity"
    ELSE name

\* compute, lines 285-296: the map slug -> name of the file, and the empty
\* dict when no file is found or the file cannot be read.
build_param_map_compute(file) ==
    IF file \in {"none", "bad"} THEN {}
    ELSE {<< PmSlug(p), p >> : p \in PmNames(file)}

\* build_param_map_for_offset through _get_or_compute: a cached value that is
\* not None is returned; otherwise the result of compute is stored when it
\* is not None (line 1055) and returned.  A cache entry is << value >>.
call_build_param_map ==
    /\ pm_n < MaxRequests
    /\ pm_n' = pm_n + 1
    /\ pm_asked' = pm_file
    /\ IF pm_cache # None
       THEN /\ pm_out' = pm_cache
            /\ UNCHANGED pm_cache
       ELSE /\ pm_cache' = << build_param_map_compute(pm_file) >>
            /\ pm_out' = << build_param_map_compute(pm_file) >>
    /\ UNCHANGED << pm_file, others_pmap >>

\* The downloader writes, truncates or replaces the file of offset 0.
pm_downloader_writes(file) ==
    /\ file # pm_file
    /\ pm_file' = file
    /\ UNCHANGED << pm_cache, pm_n, pm_asked, pm_out, others_pmap >>

\* CACHE_TTL seconds after it was stored the cache drops the entry.
pm_ttl_elapse ==
    /\ pm_cache # None
    /\ pm_cache' = None
    /\ UNCHANGED << pm_file, pm_n, pm_asked, pm_out, others_pmap >>

InitPmap ==
    /\ FreshOutside_pmap
    /\ pm_file \in PmFiles
    /\ pm_cache = None
    /\ pm_n = 0
    /\ pm_asked = "none"
    /\ pm_out = None

NextPmap ==
    \/ call_build_param_map
    \/ \E file \in PmFiles : pm_downloader_writes(file)
    \/ pm_ttl_elapse

SpecPmap == InitPmap /\ [][NextPmap]_vars

\* =========================================================================
\* Timeseries of request entries that carry a level
\* (get_point_forecast_timeseries, lines 796-870; map_values, lines 726-746)
\* =========================================================================

\* A request entry {"param_key": slug, "level": level}: << slug, level >>.
SeEntries == {"tmp", "rh"} \X {2, 10}
SeRequests == UNION {[1..n -> SeEntries] : n \in 1..MaxParams}

\* get_key_string, lines 672-675: the slug of an entry.
get_key_string(entry) == entry[1]

\* build_level_params, lines 680-687: the key of an entry in the dictionary
\* of values, level included (the type of level and the step type are those
\* of the request).
build_level_params(entry) == << entry[1], entry[2] >>

\* map_values, lines 726-746, for an entry whose message is in the file: the
\* value interpolated from the message under build_level_params(entry) at
\* the offset, named by the message and the offset it comes from.
SeMapValues(entry, off) == << << build_level_params(entry), off >>, Units(entry[1]) >>

\* The future at position j has a worker of the pool.
SeRunning(j) ==
    /\ j \in 1..Len(se_futs)
    /\ ~se_futs[j][3]
    /\ Cardinality({i \in 1..(j - 1) : ~se_futs[i][3]}) < CpuCount

\* get_point_forecast_timeseries, lines 813-832: the offsets, and for each
\* offset one future per entry, recorded in future_map under
\* (off, get_key_string(pk)) (line 832).
call_timeseries_entries(entries, total_days) ==
    /\ se_pc = "idle"
    /\ se_entries' = entries
    /\ se_offsets' = Offsets(0, total_days, 24)
    /\ se_futs' = [n \in 1..(Len(Offsets(0, total_days, 24)) * Len(entries)) |->
                     << ((n - 1) \div Len(entries)) + 1,
                        ((n - 1) % Len(entries)) + 1, FALSE >>]
    /\ se_pc' = "collecting"
    /\ UNCHANGED << se_results, se_final, others_ser >>

\* Lines 833-847: a worker finishes and the collecting loop takes its future
\* in the order of completion; the result is appended under the slug
\* future_map holds for the future.
se_future_completes(j) ==
    /\ se_pc = "collecting"
    /\ SeRunning(j)
    /\ LET off == se_offsets[se_futs[j][1]]
           entry == se_entries[se_futs[j][2]]
           res == SeMapValues(entry, off)
       IN se_results' = Append(se_results,
                               << off, get_key_string(entry), res[1], res[2] >>)
    /\ se_futs' = [se_futs EXCEPT ![j][3] = TRUE]
    /\ UNCHANGED << se_pc, se_entries, se_offsets, se_final, others_ser >>

\* Lines 854-870, once every future is taken: group by param_key and sort.
se_timeseries_return ==
    /\ se_pc = "collecting"
    /\ \A j \in 1..Len(se_futs) : se_futs[j][3]
    /\ se_final' = GroupResults(se_results)
    /\ se_pc' = "returned"
    /\ UNCHANGED << se_entries, se_offsets, se_futs, se_results, others_ser >>

InitSer ==
    /\ FreshOutside_ser
    /\ SerFresh

NextSer ==
    \/ \E entries \in SeRequests, d \in 0..MaxDays : call_timeseries_entries(entries, d)
    \/ \E j \in 1..Len(se_futs) : se_future_completes(j)
    \/ se_timeseries_return

SpecSer == InitSer /\ [][NextSer]_vars

\* =========================================================================
\* Claims on the single flight
\* =========================================================================

\* C1: for every cache key, no two threads are at the same time executing the
\* compute function passed to _get_or_compute for that key.
C1_SingleFlightMutex ==
    \A t1 \in Threads, t2 \in Threads :
        (t1 # t2 /\ InCompute(t1) /\ InCompute(t2)) => t_key[t1] # t_key[t2]

\* C1 witness: one thread computes for a key while another waits on that key's lock.
C1_Witness ==
    \E t1 \in Threads, t2 \in Threads :
        /\ t1 # t2
        /\ t_key[t1] = t_key[t2]
        /\ InCompute(t1)
        /\ pc[t2] = "goc_acq"
        /\ t_lock[t2] = t_lock[t1]

\* C2 as stated: of the callers of get_or_build_interpolator that overlap on a
\* key, at most one executes the compute closure: a caller about to execute it
\* finds that nobody executed it for the key since its own call began.
C2_BuildRunsOnce ==
    \A t \in Threads : pc[t] = "c_resolve" => ~t_raced[t]

\* C2 amended: per key, the builds that return an interpolator number at most
\* one more than the shared-cache entries of the key that were not kept
\* (expired, or their set failed); while none was lost, all callers that get
\* an interpolator get the same one.
C2_SuccessfulBuildRunsOnce ==
    /\ \A k \in InterpKeys : ok_builds[k] <= 1 + lost[k]
    /\ \A t1 \in Threads, t2 \in Threads :
          ( /\ t_out[t1] = "value" /\ pc[t1] = "done"
            /\ t_out[t2] = "value" /\ pc[t2] = "done"
            /\ t_key[t1] = t_key[t2]
            /\ lost[t_key[t1]] = 0 )
              => t_val[t1] = t_val[t2]

\* C2 witness: two overlapping callers of one key have returned the same
\* interpolator, built once: the second waited for the lock while the first
\* built, and found the value at its re-check.
C2_Witness ==
    \E t1 \in Threads, t2 \in Threads :
        /\ t1 # t2
        /\ t_key[t1] = t_key[t2]
        /\ pc[t1] = "done" /\ t_out[t1] = "value"
        /\ pc[t2] = "done" /\ t_out[t2] = "value"
        /\ t_raced[t2]
        /\ local_cache[t_key[t1]] = None
        /\ ok_builds[t_key[t1]] = 1
        /\ lost[t_key[t1]] = 0

\* The pair update_and_get_min_max is to keep: the least minimum and the
\* greatest maximum of a set of inputs.
FoldMinMax(inputs) ==
    << CHOOSE m \in {p[1] : p \in inputs} : \A p \in inputs : m <= p[1],
       CHOOSE M \in {p[2] : p \in inputs} : \A p \in inputs : M >= p[2] >>

\* C7: once updates with inputs (m_i, M_i) have completed, whatever the
\* interleaving of their cache reads and writes, the stored pair is
\* (min m_i, max M_i).
C7_MonotoneMergeInterleaved ==
    mm_inputs # {} => (minmax # None /\ JsonLoads(minmax) = FoldMinMax(mm_inputs))

\* C9: no exception of the shared cache backend reaches the caller of
\* get_or_build_interpolator.
C9_CacheErrorsNeverFatal ==
    \A t \in Threads : t_out[t] # "raised"

\* C21: a build that raises releases the lock of its key and the error
\* reaches its caller: every call waiting for the lock of a key acquires it
\* and completes, and no lock stays held forever.
C21_FailureReleasesLock ==
    /\ \A t \in Threads : (pc[t] = "goc_acq") ~> (pc[t] = "done")
    /\ \A l \in Locks : (lock_owner[l] # 0) ~> (lock_owner[l] = 0)

\* A build raised under the lock while another call on the key was under
\* way, and that call has since built and returned the value.
C21_Witness ==
    \E t, u \in Threads :
        /\ t # u /\ t_key[t] = t_key[u]
        /\ pc[t] = "done" /\ t_out[t] = "raised"
        /\ t_raced[u]
        /\ pc[u] = "done" /\ t_out[u] = "value"
        /\ \A l \in Locks : lock_owner[l] = 0

\* =========================================================================
\* Claims on the debounced write path
\* =========================================================================

\* C3: when every Set of a key registers before the timer armed by the
\* previous one has fired, the callbacks write the shared cache at most once
\* for the key, the value written is the value of the last Set, the timer of
\* every Set but the last is cancelled and writes nothing, and once all calls
\* and timers are through exactly one write has occurred.
C3_DebounceCoalesces ==
    \A k \in InterpKeys :
        ~late[k] =>
            /\ Len(deb_log[k]) <= 1
            /\ Len(deb_log[k]) = 1 => deb_log[k][1] = last_reg[k][1]
            /\ \A t \in TimersOf(k) : t # last_reg[k][2] => timer[t] = "cancelled"
            /\ (Quiescent /\ last_reg[k] # None) => Len(deb_log[k]) = 1

\* C3 witness: two Sets of one key, the second registered while the first's
\* timer was armed; the first timer is cancelled and the one write carries the
\* second value.
C3_Witness ==
    \E k \in InterpKeys, t1 \in Ops, t2 \in Ops :
        /\ ~late[k]
        /\ t1 # t2 /\ t_key[t1] = k /\ t_key[t2] = k
        /\ timer[t1] = "cancelled"
        /\ timer[t2] = "done"
        /\ Len(deb_log[k]) = 1
        /\ last_reg[k][2] = t2
        /\ deb_log[k] = << last_reg[k][1] >>
        /\ cache[k] = last_reg[k][1]

\* C4: once all Sets have returned and every timer callback has finished, the
\* shared cache holds, for each key that was Set, the value of the Set that
\* registered last.
C4_LatestValueWins ==
    \A k \in InterpKeys :
        (Quiescent /\ last_reg[k] # None) => cache[k] = last_reg[k][1]

\* C5: no two callbacks of one key are at the same time between popping their
\* value from the debounce map and finishing their write to the shared cache.
C5_CallbacksNeverOverlap ==
    \A t1 \in Ops, t2 \in Ops :
        (t1 # t2 /\ timer[t1] = "writing" /\ timer[t2] = "writing")
            => t_key[t1] # t_key[t2]

\* C6: a get_interpolator call that begins after a set_interpolator call of
\* its key has returned returns the value of that Set or of a later one.
C6_LocalCacheFresh ==
    \A t \in Ops :
        (t_op[t] = "get" /\ pc[t] = "done" /\ t_floor[t] > 0)
            => (t_val[t] # None /\ t_val[t][1] >= t_floor[t])

\* =========================================================================
\* Claims on the sequential merge and on the fan-out
\* =========================================================================

Expected(i, oi) ==
    IF pt_files[oi] /\ pt_params[i] \in {"tmp", "rh"}
    THEN << Val(pt_params[i], pt_offsets[oi]), Units(pt_params[i]) >>
    ELSE None

\* C10: a point-values request returns one entry per requested parameter, the
\* value of each parameter that evaluates and None for each that fails; a
\* timeseries request returns, for each requested parameter that evaluates,
\* its value at every offset that has a file, whatever the other parameters do.
C10_FailureNeverAbortsBatch ==
    pt_pc = "returned" =>
        IF pt_mode = "point"
        THEN /\ Len(final_results) = Len(pt_params)
             /\ \A e \in {Expected(i, 1) : i \in 1..Len(pt_params)} :
                   Cardinality({i \in 1..Len(pt_params) : Expected(i, 1) = e})
                     = Cardinality({h \in 1..Len(final_results) : final_results[h] = e})
        ELSE \A i \in 1..Len(pt_params), oi \in 1..Len(pt_offsets) :
                Expected(i, oi) # None =>
                    \E g \in 1..Len(final_results) :
                        /\ final_results[g][1] = pt_params[i]
                        /\ final_results[g][2] = Expected(i, oi)[2]
                        /\ \E h \in 1..Len(final_results[g][3]) :
                              final_results[g][3][h] = << pt_offsets[oi], Expected(i, oi)[1] >>

\* C10 witness: a point-values request for a parameter whose interpolation
\* raises and one that evaluates has returned a None and the value.
C10_Witness ==
    /\ pt_pc = "returned"
    /\ pt_mode = "point"
    /\ Len(pt_params) = 2
    /\ \E i \in 1..2 : pt_params[i] = "edge"
    /\ \E i \in 1..2 : pt_params[i] = "tmp"
    /\ \E h \in 1..2 : final_results[h] = None
    /\ \E h \in 1..2 : final_results[h] = << Val("tmp", 0), Units("tmp") >>

C31_Sorted(vs) == \A i, j \in 1..Len(vs) : i < j => vs[i][1] <= vs[j][1]

\* C31: in the result of a timeseries request the values of every parameter
\* are in non-decreasing order of valid datetime, and they are the values the
\* futures of that parameter delivered, whatever the order of completion.
C31_SeriesSorted ==
    (pt_mode = "series" /\ pt_pc = "returned") =>
        \A g \in 1..Len(final_results) :
            /\ C31_Sorted(final_results[g][3])
            /\ Len(final_results[g][3])
                 = Cardinality({i \in 1..Len(results) : results[i][2] = final_results[g][1]})
            /\ \A i \in 1..Len(results) :
                   results[i][2] = final_results[g][1] =>
                       \E h \in 1..Len(final_results[g][3]) :
                           final_results[g][3][h] = << results[i][1], results[i][3] >>

\* C31 witness: a returned timeseries request in which the future of a later
\* offset of a parameter completed before that of an earlier offset.
C31_Witness ==
    /\ pt_mode = "series"
    /\ pt_pc = "returned"
    /\ \E i, j \in 1..Len(results) :
          /\ i < j
          /\ results[i][2] = results[j][2]
          /\ results[i][1] > results[j][1]
    /\ \E g \in 1..Len(final_results) : Len(final_results[g][3]) = 2

\* C34: the list a point-values request returns is aligned with the list of
\* requested parameters: its i-th element is the value, or None, of the i-th
\* parameter, whatever the order in which the futures complete.
C34_IndexAligned ==
    (pt_mode = "point" /\ pt_pc = "returned") =>
        /\ Len(final_results) = Len(pt_params)
        /\ \A i \in 1..Len(pt_params) :
               final_results[i] = MapValues(pt_params[i], values_dict[1], 0)

\* C35: with only set_interpolator calls made, once every call has returned
\* and every timer callback has finished, the value the local cache holds for
\* a key is the value last written to the shared cache for the key.
C35_TiersConverge ==
    (Quiescent /\ \A t \in Ops : pc[t] = "done" => t_op[t] = "set") =>
        \A k \in InterpKeys :
            last_reg[k] # None =>
                /\ Len(deb_log[k]) > 0
                /\ local_cache[k] = deb_log[k][Len(deb_log[k])]
                /\ local_cache[k] = cache[k]

\* =========================================================================
\* Claims on the forecast-hour grid and on the file resolver
\* =========================================================================
Abs(n) == IF n < 0 THEN 0 - n ELSE n

\* C11: process_hour_offset returns every offset of at most 120 unchanged and
\* maps every larger offset to a multiple of 3 at distance at most 1 (residue
\* 0 keeps the value, residue 1 subtracts one, residue 2 adds one), so a
\* result above 120 is a multiple of 3; 121 gives 120, 122 gives 123, 123
\* gives 123, 384 gives 384 and 0 gives 0.
C11_SnapToThreeHourGrid ==
    snap_pc = "done" =>
        /\ snap_in <= 120 => snap_out = snap_in
        /\ snap_in > 120 =>
            /\ snap_out % 3 = 0
            /\ Abs(snap_out - snap_in) <= 1
            /\ snap_in % 3 = 0 => snap_out = snap_in
            /\ snap_in % 3 = 1 => snap_out = snap_in - 1
            /\ snap_in % 3 = 2 => snap_out = snap_in + 1
        /\ snap_out > 120 => snap_out % 3 = 0
        /\ snap_in = 121 => snap_out = 120
        /\ snap_in = 122 => snap_out = 123
        /\ snap_in = 123 => snap_out = 123
        /\ snap_in = 384 => snap_out = 384
        /\ snap_in = 0 => snap_out = 0

\* An offset above 120 off the grid has been snapped upwards.
C11_Witness == snap_pc = "done" /\ snap_in = 122 /\ snap_out = 123

\* The candidate runs of a known model whose file for the target instant is
\* on disk with a forecast hour in [0, 384].
C12_Servable ==
    {rd \in {24 * d + rh : d \in RunDays, rh \in RunHours} :
        /\ rs_model
        /\ FhrFor(rs_now, rs_offset, rd) \in 0..384
        /\ PathOf(rd, FhrFor(rs_now, rs_offset, rd)) \in disk}

\* C12: the file resolver returns the file of the newest run-init time, among
\* the candidates (today-5 .. today+1) x {00,06,12,18}, whose snapped forecast
\* hour for the target instant lies in [0,384] and whose file exists; it
\* returns absent exactly when no candidate has such a file, and never a file
\* with a forecast hour outside [0,384].
C12_NewestServableRun ==
    rs_pc = "done" =>
        /\ (resolved = None) <=> (C12_Servable = {})
        /\ \A rd \in C12_Servable :
              (\A other \in C12_Servable : other <= rd) =>
                  resolved = PathOf(rd, FhrFor(rs_now, rs_offset, rd))
        /\ resolved # None => resolved[3] \in 0..384

\* Two runs have a file for the target, one of them past hour 120, and the
\* newer one was returned.
C12_Witness ==
    /\ rs_pc = "done"
    /\ resolved # None
    /\ resolved[3] > 120
    /\ Cardinality(C12_Servable) = 2

\* =========================================================================
\* Claims on the message selector
\* =========================================================================
\* The exact-match selection of the request.
C13_Exact == Select(grbs, ParamName, sel_level, sel_type, sel_step)

\* C13: when level, levelType and stepType are all specified and no message
\* of the file matches the parameter name and all three, the selector returns
\* absent and tries no fallback step.
C13_ExactMatchOrAbsent ==
    (sel_pc = "done" /\ sel_level # {} /\ sel_type # {} /\ sel_step # {}
                     /\ Len(C13_Exact) = 0)
        => (selected = None /\ ~sel_fallback)

\* The least surface-priority rank among the messages of the exact match.
C14_BestRank ==
    CHOOSE p \in {0, 1, 2, 3, 99} :
        /\ \E i \in 1..Len(C13_Exact) : get_priority(C13_Exact[i]) = p
        /\ \A i \in 1..Len(C13_Exact) : get_priority(C13_Exact[i]) >= p

\* C14: when the exact-match selection holds more than one message, the
\* selector returns one of them of the lowest surface-priority rank present,
\* and stepType 'instant' only chooses among the messages of that rank.
C14_SurfacePriorityFirst ==
    (sel_pc = "done" /\ Len(C13_Exact) > 1) =>
        /\ selected # None
        /\ \E i \in 1..Len(C13_Exact) : C13_Exact[i] = selected
        /\ get_priority(selected) = C14_BestRank
        /\ (\E i \in 1..Len(C13_Exact) :
                /\ get_priority(C13_Exact[i]) = C14_BestRank
                /\ C13_Exact[i][4] = "instant")
            => selected[4] = "instant"

\* The steps of fetch_with_fallbacks on the request, in order.
C27_ProvidedLevel == search_for_provided_level(grbs, ParamName, sel_type, sel_level, sel_step)
C27_HeightAboveGround == search_height_above_ground(grbs, ParamName, sel_type, sel_step)
C27_IsoSurface == search_iso_surface(grbs, ParamName)

\* The messages Fallback A asks for: the name at heightAboveGround, level 2,
\* with the requested stepType, or 'instant' when none was requested.
C27_Wanted ==
    Select(grbs, ParamName, {2}, {"heightAboveGround"},
           IF sel_step = {} THEN {"instant"} ELSE sel_step)

\* C27: when no earlier step of the ladder selected a message and the
\* requested levelType is not heightAboveGround, the selector returns a
\* message of (name, heightAboveGround, level 2) with the requested stepType,
\* or with 'instant' when none was requested, whenever the file holds one.
C27_FallbackHeightAboveGround ==
    (sel_pc = "done" /\ sel_fallback /\ C27_ProvidedLevel = None
                     /\ sel_type # {"heightAboveGround"} /\ Len(C27_Wanted) > 0)
        => \E i \in 1..Len(C27_Wanted) : selected = C27_Wanted[i]

\* The messages of the file with the name, and those of a priority type.
C28_Named == Select(grbs, ParamName, {}, {}, {})
C28_Priority == SelectSeq(C28_Named, LAMBDA g : get_priority(g) < 99)

\* C28: when the ladder reaches the name-only step, the selector returns a
\* message of the best surface-priority rank among the messages of the name
\* whenever one of them is of a priority type, and the first message of the
\* name in file order only when none is.
C28_FallbackNameOnly ==
    (sel_pc = "done" /\ sel_fallback /\ C27_ProvidedLevel = None
                     /\ C27_HeightAboveGround = None /\ C27_IsoSurface = None
                     /\ Len(C28_Named) > 0)
        => IF Len(C28_Priority) > 0
           THEN /\ selected # None
                /\ get_priority(selected) < 99
                /\ \A i \in 1..Len(C28_Priority) :
                      get_priority(selected) <= get_priority(C28_Priority[i])
           ELSE selected = C28_Named[1]

\* C29: the selector returns absent only when no step of the ladder yields a
\* message; with fewer than three of level, levelType and stepType given and
\* a message of the name in the file it returns a message; every message it
\* returns has the name.
C29_SelectorTotality ==
    sel_pc = "done" =>
        /\ selected = None =>
              \/ Len(C28_Named) = 0
              \/ (sel_level # {} /\ sel_type # {} /\ sel_step # {} /\ Len(C13_Exact) = 0)
        /\ ((sel_level = {} \/ sel_type = {} \/ sel_step = {}) /\ Len(C28_Named) > 0)
              => selected # None
        /\ selected # None => selected[1] = ParamName

\* Temperature at heightAboveGround level 2 without stepType, on a file that
\* holds only the surface message: the surface message is returned.
C29_Witness ==
    /\ sel_pc = "done"
    /\ sel_level = {2} /\ sel_type = {"heightAboveGround"} /\ sel_step = {}
    /\ grbs = << << ParamName, "surface", 0, "instant" >> >>
    /\ selected = << ParamName, "surface", 0, "instant" >>

\* =========================================================================
\* Claims on the colorizer
\* =========================================================================
\* The mask colorize_grid works with.
C18_Mask == IF missing_mask = None THEN IsNan(data_2d) ELSE missing_mask

\* C18: in the raster colorize_grid returns every missing cell has alpha 0,
\* whatever the other rules give; for a name of the zero-clip set every cell
\* that is not missing has alpha 0 if its normalized value is below 0.02 and
\* alpha 255 otherwise.
C18_AlphaPolicy ==
    col_pc = "done" =>
        /\ Len(rgba) = Len(data_2d)
        /\ \A i \in 1..Len(data_2d) :
              /\ C18_Mask[i] => rgba[i][2] = 0
              /\ (zero_clip(col_slug) /\ ~C18_Mask[i]) =>
                    rgba[i][2] = IF IsBelow(Normalize(data_2d[i], col_gmin, col_gmax))
                                 THEN 0 ELSE 255

\* A grid of a name outside the zero-clip set with a missing cell beside an
\* opaque one has been colorized.
C18_Witness ==
    /\ col_pc = "done"
    /\ ~zero_clip(col_slug)
    /\ Len(rgba) = 2
    /\ C18_Mask[1] /\ rgba[1][2] = 0
    /\ ~C18_Mask[2] /\ rgba[2][2] = 255

\* A grid of a zero-clip name with a cell just below the threshold beside
\* one on it has been colorized.
C18_WitnessClip ==
    /\ col_pc = "done"
    /\ zero_clip(col_slug)
    /\ col_gmin = 0 /\ col_gmax = 100
    /\ data_2d = << Num(1), Num(2) >>
    /\ rgba[1][2] = 0 /\ rgba[2][2] = 255

\* =========================================================================
\* Claims on the barycentric evaluation
\* =========================================================================
\* The barycentric coordinates of query point i (counted from 1) in simplex s.
C19_Bary(i, s) ==
    LET p == query_pts[i]
        b0 == Transform[s][0][0] * (p[0] - Transform[s][2][0])
              + Transform[s][0][1] * (p[1] - Transform[s][2][1])
        b1 == Transform[s][1][0] * (p[0] - Transform[s][2][0])
              + Transform[s][1][1] * (p[1] - Transform[s][2][1])
    IN  << b0, b1, 1 - (b0 + b1) >>

\* C19: for N query points fast_interpolate returns N values in query order,
\* each index written exactly once: NaN exactly where the simplex index is
\* negative, elsewhere the barycentric sum over the vertices of the simplex;
\* the result is the same for every chunk size.
C19_FastEval ==
    fi_pc = "done" =>
        /\ DOMAIN fi_out = 0..(Len(query_pts) - 1)
        /\ \A i \in 1..Len(query_pts) :
              /\ fi_writes[i - 1] = 1
              /\ (fi_out[i - 1] = NaN) <=> (simplex_indices[i] < 0)
              /\ simplex_indices[i] >= 0 =>
                    LET s == simplex_indices[i]
                        b == C19_Bary(i, s)
                    IN  fi_out[i - 1] = Num(b[1] * VertexValues[Simplices[s][0]]
                                            + b[2] * VertexValues[Simplices[s][1]]
                                            + b[3] * VertexValues[Simplices[s][2]])

\* Three points, the middle one outside the hull, were evaluated in chunks of
\* two: the second chunk is the short one.
C19_Witness ==
    /\ fi_pc = "done"
    /\ fi_chunk_size = 2
    /\ Len(query_pts) = 3
    /\ simplex_indices = << 1, 0 - 1, 0 >>
    /\ fi_out[1] = NaN
    /\ fi_out[0] # NaN /\ fi_out[2] # NaN
    /\ fi_i = 2

\* =========================================================================
\* Claims on the tile route
\* =========================================================================
\* C15: two successive renders of one tile (same model, parameter, offset, z,
\* x, y) return the same PNG, whatever happened between them: cache hits or
\* expiries, interpolator rebuilds, min/max widening by builds for other
\* offsets of the parameter.
C15_TileDeterminism ==
    (tl_resp # None /\ tl_resp[1] = "200") =>
        tl_resp[2] = tl_first[create_tile_cache_key(tl_req[2], tl_req[3])]

\* C16: a GRIB decode failure or an interpolator build failure during a
\* render reaches the caller as an error (500), not as the no-data outcome
\* (404).
C16_BuildErrorsSurface ==
    tl_cause \in {"corrupt", "sparse"} => tl_resp[1] = "500"

\* z >= 0 and x, y in [0, 2^z).
C17_InRange(c) ==
    /\ c[1] >= 0
    /\ c[2] \in 0..(2^c[1] - 1)
    /\ c[3] \in 0..(2^c[1] - 1)

\* C17: a tile request is rejected with 404 before any cache read, file
\* resolution or render exactly when z < 0 or x or y lies outside [0, 2^z);
\* every request with coordinates in range passes the validation.
C17_CoordinateValidation ==
    tl_req # None =>
        /\ ~C17_InRange(tl_req[3]) => (tl_resp[1] = "404" /\ tl_ops = {})
        /\ tl_req[1] =>
              ((tl_resp = << "404", << "Invalid tile coordinates." >> >>)
                  <=> ~C17_InRange(tl_req[3]))
        /\ (tl_req[1] /\ C17_InRange(tl_req[3])) => "tile_get" \in tl_ops

\* A request with x = 2^z was rejected although a tile of the same key and
\* zoom level is cached.
C17_Witness ==
    /\ tl_req # None
    /\ tl_req[1]
    /\ tl_req[3] = << 1, 2, 0 >>
    /\ tl_resp[1] = "404"
    /\ tl_ops = {}
    /\ tl_tiles[<< tl_req[2], << 1, 1, 0 >> >>] # None

\* =========================================================================
\* Claims on the tile key
\* =========================================================================

\* The key of the request just served.
C30_Key == create_tile_cache_key_full(TkInterp, TkCoord, tk_req[2], tk_req[1], tk_req[3])

\* C30: the level component of the tile key is the requested level whenever
\* a level is given and 0 only when none is, the typeOfLevel component is the
\* requested one or 'surface', the stepType component the requested one or
\* 'instant'; so a request is never served a cached tile that was rendered
\* for a request with another level.
C30_TileKeyByLevel ==
    tk_pc = "done" =>
        /\ C30_Key[3] = (IF tk_req[1] = {} THEN "0" ELSE FormatOptInt(tk_req[1]))
        /\ C30_Key[4] = (IF tk_req[2] = {} THEN "surface" ELSE TheStr(tk_req[2]))
        /\ C30_Key[5] = (IF tk_req[3] = {} THEN "instant" ELSE TheStr(tk_req[3]))
        /\ tk_resp[1] = "200" => tk_resp[3][1] = tk_req[1]

\* =========================================================================
\* Claims on the value dictionary
\* =========================================================================

\* C23: the read-modify-write of the value dictionary of an offset runs
\* one caller at a time: two callers are never both between the read and the
\* write-back, no entry is populated twice at once, and no write-back
\* removes an entry another caller stored.
C23_DictionaryOneAtATime ==
    /\ Cardinality(GdInside) <= 1
    /\ gd_dup = {}
    /\ gd_lost = {}

\* =========================================================================
\* Claims on the downloader
\* =========================================================================

\* C24: the older folders and files are deleted only when the 00 run of the
\* current day is complete locally for every file pattern: every forecast
\* file of the run, up to f384, of every pattern is present.
C24_CleanupOnlyWhenComplete ==
    dl_old = "pruned" => DlRunFiles \subseteq dl_local

\* =========================================================================
\* Claims on the local store and on the eviction of interpolators
\* =========================================================================

\* C22: an interpolator published under a key is no longer returned by a
\* lookup of the key once more than TTL has passed since it was last
\* published, and from then on neither tier holds it.
C22_TtlEvictionBothTiers ==
    /\ (tt_resp # None /\ tt_resp[3] = "old") => tt_resp[2] = "absent"
    /\ \A k \in InterpKeys : tt_pub[k] = "old" => (~ls_data[k] /\ ~tt_l2[k])

\* C25: a get on a key whose timestamp is older than TTL removes the entry
\* and returns absent to its caller: it never ends up waiting for the lock
\* it holds itself.
C25_LazyEvictionReturns ==
    \A t \in Threads :
        ~(ls_op[t] # None /\ ls_op[t][1] = "get" /\ ls_pc[t] = "nested" /\ ls_lock = {t})

\* C26: a sweep that finds entries older than TTL removes them, finishes and
\* releases the lock: the cleaner thread never ends up waiting for the lock
\* it holds itself, with the entries still in the store.
C26_SweepFinishes ==
    ~(ls_pc[Sweeper] = "nested" /\ ls_lock = {Sweeper})

\* A run of the script in which every download that was tried succeeded:
\* each listed file whose hour had no local file is in the folder afterwards.
C38_NoDownloadError ==
    \A f \in dl_s3 :
        (f[2] \notin find_local_fvalues(dl_local) /\ f \notin dl_local) => f \in dl_local'

\* C38: after download_sparse_files finishes without a download error, every
\* file of a required hour and of a pattern that S3 lists under the prefix is
\* in the local folder, whatever the folder held before the call.
C38_DownloadComplete ==
    [][(dl_runs' = dl_runs + 1 /\ C38_NoDownloadError)
          => \A f \in dl_s3 : f[2] \in FULL_RANGE => f \in dl_local']_vars

\* =========================================================================
\* Claims on the longitude wrap
\* =========================================================================

\* C32: for every target longitude, below -360 and from 360 up included, the
\* longitude used for the nearest-cell search lies in [0, 360) and is
\* congruent to the target modulo 360.
C32_LongitudeWrap ==
    wr_pc = "done" =>
        /\ wr_out >= 0 /\ wr_out < 360
        /\ (wr_out - wr_lon) % 360 = 0

\* =========================================================================
\* Claims on the forecast stream
\* =========================================================================

\* C33: for a timeseries with n offsets the response carries a progress line
\* 'k of n' for k = 1..n in increasing order and after them the one
\* timeseries line: once the response has ended no progress message is
\* missing from it.
C33_StreamOrdering ==
    st_gen = "closed" =>
        st_out = [i \in 1..(st_n + 1) |->
                     IF i <= st_n THEN ProgressLine(i, st_n) ELSE TimeseriesLine]

\* =========================================================================
\* Claims on the parameter map
\* =========================================================================

\* C36: a failed build of the parameter map is not cached: a request made
\* while a readable file is there returns the slugs of a readable file,
\* never the empty map of an earlier failed build.
C36_FailedBuildNotCached ==
    (pm_n > 0 /\ pm_asked \in {"one", "two"}) => pm_out # << {} >>

\* =========================================================================
\* Claims on the timeseries of entries with levels
\* =========================================================================

\* C37: the result of a timeseries request has one series per distinct
\* requested entry, and the values of a series all come from one entry: two
\* entries with the same slug and different levels are never merged.
C37_OneSeriesPerEntry ==
    se_pc = "returned" =>
        /\ Len(se_final)
             = Cardinality({se_entries[i] : i \in 1..Len(se_entries)})
        /\ \A g \in 1..Len(se_final) :
               \A a, b \in 1..Len(se_final[g][3]) :
                   se_final[g][3][a][2][1] = se_final[g][3][b][2][1]

====
